---- MODULE Spec2Model ----
(***************************************************************************)
(* Model of the template compositing engine of the photo booth             *)
(* (src/src/template_processor.py).                                        *)
(*                                                                         *)
(* Pixel buffers are functions from <<row, col>> to a pixel value.  A      *)
(* pixel value is the tuple <<layer, src, r, c>> that names where the      *)
(* pixel comes from: the solid background colour, the background image,    *)
(* the white fill of the fit step, pixel (r, c) of an input photo, the     *)
(* i-th text element or the j-th decorative element.                       *)
(***************************************************************************)
EXTENDS Integers, Sequences, FiniteSets, TLC

VARIABLES
    templates,   \* TemplateProcessor.templates: template name -> document
    call,        \* the last compose call: entry point, template name, photos
    ret,         \* what that call returned: a canvas, None, or an exception
    drawLog,     \* the draws of that call, in the order they were made
    frontBuf,    \* the caller's first photo buffer after the call
    sideBuf,     \* the caller's second photo buffer after the call
    fitIn,       \* sizes handed to the fit step
    fitOut,      \* result of _process_photo_for_position on fitIn
    legacyOut,   \* result of _process_photo on fitIn
    dir,         \* the template directory on disk
    storeOp,     \* the last operation on the template store and its result
    substIn,     \* text and configuration handed to _substitute_variables
    substOut,    \* what _substitute_variables returned for substIn
    boxIn,       \* sizes handed to ImageProcessor.resize_image
    boxOut,      \* what resize_image or create_thumbnail returned for boxIn
    config_data, \* ConfigManager.config_data: key -> value
    config_file, \* the settings file of the ConfigManager on disk
    cfgOp,       \* the last ConfigManager operation and what it returned
    app,         \* the fields of SlammerPhotoBoothApp and of its widgets
    click,       \* the last GUI handler that ran, and what it did
    preview_running, \* SlammerPhotoBoothApp.preview_running
    preview,     \* where each preview thread is in preview_loop
    gui          \* where the GUI thread is in capture_image

fitVars == <<fitIn, fitOut, legacyOut>>

composeVars == <<templates, call, ret, drawLog, frontBuf, sideBuf>>

storeVars == <<dir, storeOp>>

substVars == <<substIn, substOut>>

boxVars == <<boxIn, boxOut>>

cfgVars == <<config_data, config_file, cfgOp>>

boothVars == <<app, click>>

previewVars == <<preview_running, preview, gui>>

\* the variables of the template engine
engineVars == <<composeVars, fitVars, storeVars, substVars>>

\* the variables of the rest of the application
restVars == <<boxVars, cfgVars, boothVars, previewVars>>

vars ==
    <<templates, call, ret, drawLog, frontBuf, sideBuf, fitIn, fitOut, legacyOut,
      dir, storeOp, substIn, substOut, boxIn, boxOut,
      config_data, config_file, cfgOp, app, click, preview_running, preview, gui>>

(***************************************************************************)
(* Bounds of the model.                                                    *)
(***************************************************************************)
MaxSrcW == 11
MaxSrcH == 3
MaxTgtW == 15
MaxTgtH == 3
MaxCanvas == 4
MaxSlot == 2
MaxPhoto == 2

MaxPieces == 2

MaxShots == 3

MaxThreads == 2

\* camera.read() calls of one get_frame and of one capture_image
FrameReads == 2

CaptureReads == 4

(***************************************************************************)
(* Results of a step that may raise a Python exception.                    *)
(***************************************************************************)
Ok(v) == [ok |-> TRUE, val |-> v]

NoImage ==
    [w |-> 0, h |-> 0, buf |-> "none", order |-> "bgr",
     px |-> [p \in {} |-> <<"none", "", 0, 0>>]]

Raise == [ok |-> FALSE, val |-> NoImage]

Max(a, b) == IF a >= b THEN a ELSE b

Min(a, b) == IF a <= b THEN a ELSE b

RECURSIVE Pow2(_)
Pow2(n) == IF n <= 0 THEN 1 ELSE 2 * Pow2(n - 1)

(***************************************************************************)
(* Python float arithmetic (IEEE-754 binary64, round to nearest even) of   *)
(* the expression int(c * (a / b)) for positive integers a, b, c, as used  *)
(* for new_width and new_height.  The 53-bit mantissa of a / b is never    *)
(* built: with s the exponent that puts a * 2^s / b in [2^52, 2^53), the   *)
(* rounded quotient is (a * 2^s + d) / b * 2^-s, where d is fixed by the    *)
(* remainder r of a * 2^s modulo b.                                        *)
(***************************************************************************)
\* 2^s modulo b, by squaring: 2^s = (2^(s \div 2))^2 * 2^(s % 2)
RECURSIVE PowMod2(_, _)
PowMod2(s, b) ==
    IF s = 0 THEN 1 % b
    ELSE LET h == PowMod2(s \div 2, b)
         IN  (h * h * (IF s % 2 = 1 THEN 2 ELSE 1)) % b

\* the j with b <= a * 2^j < 2b ; the quotient's exponent is s = 52 + j
RECURSIVE QuotExp(_, _)
QuotExp(a, b) ==
    IF a < b THEN QuotExp(2 * a, b) + 1
    ELSE IF a >= 2 * b THEN QuotExp(a, 2 * b) - 1
    ELSE 0

RECURSIVE FloorLog2(_)
FloorLog2(n) == IF n < 2 THEN 0 ELSE 1 + FloorLog2(n \div 2)

\* b * fl(a / b) - a, in units of 2^-s : the rounding error of the division
QuotErr(a, b) ==
    LET s == 52 + QuotExp(a, b)
        r == ((a % b) * PowMod2(s, b)) % b
    IN  IF r = 0 THEN 0 ELSE IF 2 * r < b THEN -r ELSE b - r

\* int(c * (a / b))
FloatMulFloor(c, a, b) ==
    IF a = 0 THEN 0
    ELSE IF (c * a) % b # 0
    THEN \* the exact product is at least 1/b away from an integer
         (c * a) \div b
    ELSE LET N == (c * a) \div b
             e == (c * QuotErr(a, b)) \div b
             k == FloorLog2(N)
             twoUlp == Pow2(k + QuotExp(a, b) + 1)
             stays == IF N = Pow2(k) THEN 8 * (-e) <= twoUlp
                                     ELSE 4 * (-e) <= twoUlp
         IN  IF e >= 0 \/ stays THEN N ELSE N - 1

(***************************************************************************)
(* Pixel buffers.  buf names the storage of an array: the caller's photo   *)
(* it is, or the call that allocated it.  An operation that returns a new  *)
(* array gives it a new buf; one that writes into an array keeps its buf.  *)
(* order is the channel order of the pixel values: "bgr" as cv2 reads and  *)
(* writes them, "rgb" as PIL draws on them.                                *)
(***************************************************************************)
Coords(w, h) == (0..(h - 1)) \X (0..(w - 1))

White == <<"white", "", 0, 0>>

\* an input photo of the camera: pixel (r, c) of photo `id`
Photo(id, w, h) ==
    [w |-> w, h |-> h, buf |-> id, order |-> "bgr",
     px |-> [p \in Coords(w, h) |-> <<"photo", id, p[1], p[2]>>]]

\* cv2.flip(image, 1): a new buffer, columns reversed
flip(image) ==
    [w |-> image.w, h |-> image.h, buf |-> "cv2.flip", order |-> image.order,
     px |-> [p \in Coords(image.w, image.h) |-> image.px[<<p[1], image.w - 1 - p[2]>>]]]

\* the source index whose cell holds the centre of destination index i
SrcIndex(i, n0, n) == ((2 * i + 1) * n0) \div (2 * n)

\* cv2.resize(image, (nw, nh)): raises on an empty source or an empty size
resize(image, nw, nh) ==
    IF nw <= 0 \/ nh <= 0 \/ image.w <= 0 \/ image.h <= 0
    THEN Raise
    ELSE Ok([w |-> nw, h |-> nh, buf |-> "cv2.resize", order |-> image.order,
             px |-> [p \in Coords(nw, nh) |->
                       image.px[<<SrcIndex(p[1], image.h, nh),
                                  SrcIndex(p[2], image.w, nw)>>]]])

(***************************************************************************)
(* Geometric fit engine.                                                   *)
(***************************************************************************)
\* scale = max(scale_x, scale_y) as the fraction <<numerator, denominator>>
FitScale(orig_width, orig_height, target_width, target_height) ==
    IF target_width * orig_height >= target_height * orig_width
    THEN <<target_width, orig_width>>
    ELSE <<target_height, orig_height>>

\* offset, crop window and paste position of the fit along one axis
FitAxis(new, target) ==
    LET offset == (target - new) \div 2
        start == Max(0, -offset)
        end == Min(new, start + target)
        place == Max(0, offset)
    IN  [new |-> new, start |-> start, end |-> end, place |-> place,
         place_end |-> place + (end - start)]

FitWindow(x, y) ==
    [new_width |-> x.new, new_height |-> y.new,
     start_x |-> x.start, start_y |-> y.start,
     end_x |-> x.end, end_y |-> y.end,
     place_x |-> x.place, place_y |-> y.place,
     place_end_x |-> x.place_end, place_end_y |-> y.place_end]

\* new_width and new_height, and the windows they give
FitSize(orig_width, orig_height, target_width, target_height, scale) ==
    FitWindow(FitAxis(FloatMulFloor(orig_width, scale[1], scale[2]), target_width),
              FitAxis(FloatMulFloor(orig_height, scale[1], scale[2]), target_height))

FitGeometry(orig_width, orig_height, target_width, target_height) ==
    FitSize(orig_width, orig_height, target_width, target_height,
            FitScale(orig_width, orig_height, target_width, target_height))

\* result = white target, result[place] = resized[crop]
CropOnWhite(resized, g, target_width, target_height) ==
    IF ~resized.ok
    THEN Raise
    ELSE Ok([w |-> target_width, h |-> target_height,
             buf |-> "np.full", order |-> resized.val.order,
             px |-> [p \in Coords(target_width, target_height) |->
                       IF /\ g.place_y <= p[1] /\ p[1] < g.place_end_y
                          /\ g.place_x <= p[2] /\ p[2] < g.place_end_x
                       THEN resized.val.px[<<g.start_y + (p[1] - g.place_y),
                                             g.start_x + (p[2] - g.place_x)>>]
                       ELSE White]])

\* cv2.resize to the scaled size, then the crop
ScaleAndCrop(image, g, target_width, target_height) ==
    CropOnWhite(resize(image, g.new_width, g.new_height), g,
                target_width, target_height)

\* the scaled photo returned without the centre crop
process_photo_for_position_uncropped(image, target_width, target_height) ==
    IF image.w <= 0 \/ image.h <= 0 \/ target_width < 0 \/ target_height < 0
    THEN Raise
    ELSE LET g == FitGeometry(image.w, image.h, target_width, target_height)
         IN  resize(image, g.new_width, g.new_height)

\* _process_photo_for_position(image, image_pos) on a slot of the given size
process_photo_for_position(image, target_width, target_height) ==
    IF image.w <= 0 \/ image.h <= 0 \/ target_width < 0 \/ target_height < 0
    THEN Raise
    ELSE ScaleAndCrop(image, FitGeometry(image.w, image.h, target_width, target_height),
                      target_width, target_height)

\* _process_photo(image, template): cv2.resize to the slot size
process_photo(image, target_width, target_height) ==
    resize(image, target_width, target_height)

(***************************************************************************)
(* Template documents.  A JSON object is a record together with the set    *)
(* `keys` of the keys the document really has: a field whose key is not    *)
(* in `keys` is absent from the document.                                  *)
(***************************************************************************)
TickStep == 50

TickLength == 30

TickThickness == 2

LabelStep == 100

LabelDivisor == 10

DefaultBorderWidth == 5

DefaultDividerWidth == 2

DefaultDividerEnd == 100

Event(ev, i, what) == [ev |-> ev, i |-> i, what |-> what]

Solid(w, h, tag) ==
    [w |-> w, h |-> h, buf |-> "np.full", order |-> "bgr",
     px |-> [p \in Coords(w, h) |-> tag]]

BgColor == <<"bg", "color", 0, 0>>

TextPixel(i) == <<"text", "", i, 0>>

DecoPixel(j) == <<"deco", "", j, 0>>

Paint(canvas, S, tag) ==
    [canvas EXCEPT !.px = [p \in DOMAIN canvas.px |->
                             IF p \in S THEN tag ELSE canvas.px[p]]]

(***************************************************************************)
(* numpy slice assignment  canvas[y:y+h, x:x+w] = photo .                  *)
(***************************************************************************)
\* a slice bound on an axis of length n: negative bounds count from the end
SliceBound(i, n) == IF i < 0 THEN Max(i + n, 0) ELSE Min(i, n)

\* <<first index, length>> of the slice a:b on an axis of length n
SliceRange(a, b, n) ==
    <<SliceBound(a, n), Max(0, SliceBound(b, n) - SliceBound(a, n))>>

\* the assignment raises ValueError unless the photo broadcasts to the slice
SliceAssign(canvas, photo, x, y) ==
    LET rows == SliceRange(y, y + photo.h, canvas.h)
        cols == SliceRange(x, x + photo.w, canvas.w)
    IN  IF /\ (rows[2] = photo.h \/ photo.h = 1)
           /\ (cols[2] = photo.w \/ photo.w = 1)
        THEN Ok([canvas EXCEPT !.px =
                   [p \in DOMAIN canvas.px |->
                      IF /\ rows[1] <= p[1] /\ p[1] < rows[1] + rows[2]
                         /\ cols[1] <= p[2] /\ p[2] < cols[1] + cols[2]
                      THEN photo.px[<<IF rows[2] = photo.h THEN p[1] - rows[1] ELSE 0,
                                      IF cols[2] = photo.w THEN p[2] - cols[1] ELSE 0>>]
                      ELSE canvas.px[p]]])
        ELSE Raise

\* the guard of both placement functions
WithinBounds(canvas, photo, x, y) ==
    y + photo.h <= canvas.h /\ x + photo.w <= canvas.w

\* _place_photo_at_position(canvas, photo, image_pos)
place_photo_at_position(canvas, photo, image_pos) ==
    IF ~({"x", "y"} \subseteq image_pos.keys)
    THEN Raise
    ELSE IF WithinBounds(canvas, photo, image_pos.x, image_pos.y)
         THEN SliceAssign(canvas, photo, image_pos.x, image_pos.y)
         ELSE Ok(canvas)

\* _place_photo(canvas, photo, template)
place_photo(canvas, photo, template) ==
    IF \/ "image_position" \notin template.keys
       \/ ~({"x", "y"} \subseteq template.image_position.keys)
    THEN Raise
    ELSE LET image_pos == template.image_position
         IN  IF WithinBounds(canvas, photo, image_pos.x, image_pos.y)
             THEN SliceAssign(canvas, photo, image_pos.x, image_pos.y)
             ELSE Ok(canvas)

\* whether a placement that did not raise wrote the photo
Placed(canvas, photo, image_pos) ==
    WithinBounds(canvas, photo, image_pos.x, image_pos.y)

(***************************************************************************)
(* _create_canvas                                                          *)
(***************************************************************************)
\* the background image file of the template directory, as cv2.imread
\* returns it; its size differs from every final_size
BgFile(w, h) ==
    [w |-> w, h |-> h, buf |-> "cv2.imread", order |-> "bgr",
     px |-> [p \in Coords(w, h) |-> <<"bg", "image", p[1], p[2]>>]]

\* the background image used at its own size
create_canvas_unscaled(template, bgFile) ==
    IF ~({"final_size", "background"} \subseteq template.keys)
    THEN Raise
    ELSE IF "color" \notin template.background.keys
         THEN Raise
         ELSE IF template.background.image = "ok"
              THEN Ok(bgFile)
              ELSE Ok(Solid(template.final_size[1], template.final_size[2], BgColor))

\* a declared background image that cannot be used is an error
create_canvas_strict(template, bgFile) ==
    IF ~({"final_size", "background"} \subseteq template.keys)
    THEN Raise
    ELSE IF \/ "color" \notin template.background.keys
            \/ template.final_size[1] < 0 \/ template.final_size[2] < 0
            \/ template.background.image \in {"nofile", "unreadable"}
         THEN Raise
         ELSE IF template.background.image = "ok"
              THEN resize(bgFile, template.final_size[1], template.final_size[2])
              ELSE Ok(Solid(template.final_size[1], template.final_size[2], BgColor))

create_canvas(template, bgFile) ==
    IF ~({"final_size", "background"} \subseteq template.keys)
    THEN Raise
    ELSE LET final_size == template.final_size
             background == template.background
         IN  IF \/ "color" \notin background.keys
                \/ final_size[1] < 0 \/ final_size[2] < 0
             THEN Raise
             ELSE IF background.image = "ok"
                  THEN resize(bgFile, final_size[1], final_size[2])
                  ELSE Ok(Solid(final_size[1], final_size[2], BgColor))

(***************************************************************************)
(* The state a compose call threads through its passes: the canvas, the    *)
(* draws made so far and the caller's two photo buffers.  ok is FALSE once *)
(* an exception is on its way to the handler of the entry point.           *)
(***************************************************************************)
Failed(st) == [st EXCEPT !.ok = FALSE]

\* a write into the canvas array shows in every name bound to that array
Stored(st) ==
    [st EXCEPT !.front = IF @.buf = st.canvas.buf THEN st.canvas ELSE @,
               !.side = IF @.buf = st.canvas.buf THEN st.canvas ELSE @]

Logged(st, e) == [st EXCEPT !.log = Append(@, e)]

\* the side view taken from the photo as it is
MirrorStep_noflip(image) == [photo |-> image, image |-> image]

\* the flip written back into the array it was given
MirrorStep_inplace(image) ==
    LET flipped == [flip(image) EXCEPT !.buf = image.buf]
    IN  [photo |-> flipped, image |-> flipped]

\* side_image = cv2.flip(image, 1): the new buffer and the caller's buffer
MirrorStep(image) == [photo |-> flip(image), image |-> image]

\* the photo a slot of process_image is filled from
MirrorSource(img_pos, image) ==
    IF img_pos.name = "side_view" THEN "mirrored" ELSE "front"

\* the photo a slot of process_dual_images is filled from
DualSource(img_pos) ==
    IF img_pos.name = "side_view" THEN "side" ELSE "front"

FitSlot(source, img_pos) ==
    IF {"width", "height"} \subseteq img_pos.keys
    THEN process_photo_for_position(source, img_pos.width, img_pos.height)
    ELSE Raise

\* the paste of one slot iteration and what the iteration leaves behind
SlotPaste(st, fitted, placed, what, img_pos, i) ==
    IF ~placed.ok THEN Failed(Logged(st, Event("fit", i, what)))
    ELSE Stored([st EXCEPT
                   !.canvas = placed.val,
                   !.log = @ \o <<Event("fit", i, what),
                                  Event("photo", i,
                                        IF Placed(st.canvas, fitted.val, img_pos)
                                        THEN "placed" ELSE "skipped")>>])

SlotFitted(st, fitted, what, img_pos, i) ==
    IF ~fitted.ok THEN Failed(st)
    ELSE SlotPaste(st, fitted,
                   place_photo_at_position(st.canvas, fitted.val, img_pos),
                   what, img_pos, i)

\* one iteration of either slot loop, the source photo already chosen
SlotStep(st, source, what, img_pos, i) ==
    SlotFitted(st, FitSlot(source, img_pos), what, img_pos, i)

\* the loop over template["image_positions"] in process_image
RECURSIVE MirroredSlots(_, _, _)
MirroredSlots(st, slots, i) ==
    IF ~st.ok \/ i > Len(slots) THEN st
    ELSE LET img_pos == slots[i]
             what == MirrorSource(img_pos, st.front)
             m == MirrorStep(st.front)
             st1 == IF what = "mirrored" THEN [st EXCEPT !.front = m.image] ELSE st
             source == IF what = "mirrored" THEN m.photo ELSE st.front
         IN  MirroredSlots(SlotStep(st1, source, what, img_pos, i), slots, i + 1)

\* the loop over template["image_positions"] in process_dual_images
RECURSIVE DualSlots(_, _, _)
DualSlots(st, slots, i) ==
    IF ~st.ok \/ i > Len(slots) THEN st
    ELSE LET img_pos == slots[i]
             what == DualSource(img_pos)
             source == IF what = "side" THEN st.side ELSE st.front
         IN  DualSlots(SlotStep(st, source, what, img_pos, i), slots, i + 1)

LegacyPaste(st, processed, placed, image_pos) ==
    IF ~placed.ok THEN Failed(Logged(st, Event("fit", 1, "stretched")))
    ELSE Stored([st EXCEPT
                   !.canvas = placed.val,
                   !.log = @ \o <<Event("fit", 1, "stretched"),
                                  Event("photo", 1,
                                        IF Placed(st.canvas, processed.val, image_pos)
                                        THEN "placed" ELSE "skipped")>>])

LegacyFitted(st, processed, template) ==
    IF ~processed.ok THEN Failed(st)
    ELSE LegacyPaste(st, processed,
                     place_photo(st.canvas, processed.val, template),
                     template.image_position)

\* the legacy branch of process_image: _process_photo, then _place_photo
LegacySlot(st, template) ==
    IF \/ "image_position" \notin template.keys
       \/ ~({"width", "height"} \subseteq template.image_position.keys)
    THEN Failed(st)
    ELSE LegacyFitted(st, process_photo(st.front, template.image_position.width,
                                        template.image_position.height),
                      template)

(***************************************************************************)
(* Text pass.  PIL draws the glyphs of an element into the rectangle that  *)
(* starts at its position and has the extent of the rendered string, cut   *)
(* off at the canvas edges; `ext` is that extent.                          *)
(***************************************************************************)
TextFootprint(canvas, element) ==
    {p \in DOMAIN canvas.px :
        /\ element.position[2] <= p[1] /\ p[1] < element.position[2] + element.ext[2]
        /\ element.position[1] <= p[2] /\ p[2] < element.position[1] + element.ext[1]}

\* an error on the element goes on to the handler of the entry point
add_text_element_raising(st, element, i) ==
    IF ~({"text", "position", "color"} \subseteq element.keys) \/ ~element.font_ok
    THEN Failed(st)
    ELSE [st EXCEPT
            !.canvas = Paint(@, TextFootprint(@, element), TextPixel(i)),
            !.log = Append(@, Event("text", i, "truetype"))]

\* _add_text_element: any error on the element is caught and logged
add_text_element(st, element, i) ==
    IF ~({"text", "position", "color"} \subseteq element.keys)
    THEN st
    ELSE [st EXCEPT
            !.canvas = Paint(@, TextFootprint(@, element), TextPixel(i)),
            !.log = Append(@, Event("text", i, IF element.font_ok
                                               THEN "truetype" ELSE "default_font"))]

RECURSIVE TextLoop(_, _, _)
TextLoop(st, elements, i) ==
    IF i > Len(elements) THEN st
    ELSE TextLoop(add_text_element(st, elements[i], i), elements, i + 1)

\* cv2.cvtColor returns a new array with the first and the third channel
\* exchanged, whichever of COLOR_BGR2RGB and COLOR_RGB2BGR is asked for
cvtColor(st, code) ==
    [st EXCEPT !.canvas.buf = "cv2.cvtColor",
               !.canvas.order = IF @ = "bgr" THEN "rgb" ELSE "bgr",
               !.log = Append(@, Event(code, 0, ""))]

\* the canvas converted forth and back around every single element
RECURSIVE ConvertingLoop(_, _, _)
ConvertingLoop(st, elements, i) ==
    IF i > Len(elements) THEN st
    ELSE ConvertingLoop(cvtColor(add_text_element(cvtColor(st, "to_rgb"), elements[i], i),
                                 "to_bgr"),
                        elements, i + 1)

add_text_elements_perElement(st, template) ==
    IF st.canvas.w = 0 \/ st.canvas.h = 0
    THEN Failed(st)
    ELSE ConvertingLoop(st, IF "text_elements" \in template.keys
                            THEN template.text_elements ELSE <<>>, 1)

\* _add_text_elements: cv2.cvtColor raises on an empty canvas
add_text_elements(st, template) ==
    IF st.canvas.w = 0 \/ st.canvas.h = 0
    THEN Failed(st)
    ELSE cvtColor(TextLoop(cvtColor(st, "to_rgb"),
                           IF "text_elements" \in template.keys
                           THEN template.text_elements ELSE <<>>, 1),
                  "to_bgr")

(***************************************************************************)
(* Decoration pass.  cv2.line draws the pixels of the segment, widened to  *)
(* a band of half-width thickness \div 2 when the thickness exceeds 1 and  *)
(* cut off at the canvas edges.  The model's segments are axis-parallel or *)
(* diagonal.                                                               *)
(***************************************************************************)
Abs(n) == IF n < 0 THEN -n ELSE n

OnSegment(q, x0, y0, x1, y1) ==
    /\ Min(y0, y1) <= q[1] /\ q[1] <= Max(y0, y1)
    /\ Min(x0, x1) <= q[2] /\ q[2] <= Max(x0, x1)
    /\ (q[2] - x0) * (y1 - y0) = (q[1] - y0) * (x1 - x0)

LineFootprint(canvas, x0, y0, x1, y1, thickness) ==
    LET half == IF thickness <= 1 THEN 0 ELSE thickness \div 2
    IN  {p \in DOMAIN canvas.px :
            \E q \in ((p[1] - half)..(p[1] + half)) \X ((p[2] - half)..(p[2] + half)) :
                OnSegment(q, x0, y0, x1, y1)}

\* the offsets of range(0, height, 50)
TickOffsets(height) == {i \in 0..(height - 1) : i % TickStep = 0}

\* a label at every tick
RECURSIVE Ticks_labelEvery(_, _, _, _)
Ticks_labelEvery(st, element, j, i) ==
    IF i >= element.height THEN st
    ELSE Ticks_labelEvery(
             Logged(Stored([st EXCEPT
                        !.canvas = Paint(@, LineFootprint(@, element.position[1],
                                                          element.position[2] + i,
                                                          element.position[1] + TickLength,
                                                          element.position[2] + i,
                                                          TickThickness),
                                         DecoPixel(j)),
                        !.log = Append(@, Event("tick", i, "height_chart"))]),
                    Event("label", i \div LabelDivisor, "height_chart")),
             element, j, i + TickStep)

\* _add_height_chart: one tick per offset, a label at every second tick.
\* The label is put left of the chart (x - 25), outside the canvases of the
\* model, so only its value is recorded.
RECURSIVE Ticks(_, _, _, _)
Ticks(st, element, j, i) ==
    IF i >= element.height THEN st
    ELSE LET mark_y == element.position[2] + i
             x == element.position[1]
             ticked == Stored([st EXCEPT
                          !.canvas = Paint(@, LineFootprint(@, x, mark_y, x + TickLength,
                                                            mark_y, TickThickness),
                                           DecoPixel(j)),
                          !.log = Append(@, Event("tick", i, "height_chart"))])
             labelled == IF i % LabelStep = 0
                         THEN Logged(ticked, Event("label", i \div LabelDivisor, "height_chart"))
                         ELSE ticked
         IN  Ticks(labelled, element, j, i + TickStep)

add_height_chart(st, element, j) ==
    IF ~({"position", "height"} \subseteq element.keys)
    THEN st
    ELSE Ticks(Logged(st, Event("deco", j, "height_chart")), element, j, 0)

\* cv2.rectangle(canvas, (0, 0), (w-1, h-1), color, width): the four edges
BorderFootprint(c, width) ==
    LineFootprint(c, 0, 0, c.w - 1, 0, width)
        \cup LineFootprint(c, 0, c.h - 1, c.w - 1, c.h - 1, width)
        \cup LineFootprint(c, 0, 0, 0, c.h - 1, width)
        \cup LineFootprint(c, c.w - 1, 0, c.w - 1, c.h - 1, width)

BorderWidth(element) ==
    IF "width" \in element.keys THEN element.width ELSE DefaultBorderWidth

\* _add_border
add_border(st, element, j) ==
    Stored([st EXCEPT
              !.canvas = Paint(@, BorderFootprint(@, BorderWidth(element)), DecoPixel(j)),
              !.log = Append(@, Event("deco", j, "border"))])

DividerFootprint(c, element) ==
    LET start == IF "start" \in element.keys THEN element.start ELSE <<0, 0>>
        end == IF "end" \in element.keys THEN element.end
               ELSE <<DefaultDividerEnd, DefaultDividerEnd>>
        width == IF "width" \in element.keys THEN element.width ELSE DefaultDividerWidth
    IN  LineFootprint(c, start[1], start[2], end[1], end[2], width)

\* _add_divider_line
add_divider_line(st, element, j) ==
    Stored([st EXCEPT !.canvas = Paint(@, DividerFootprint(@, element), DecoPixel(j)),
                      !.log = Append(@, Event("deco", j, "divider_line"))])

\* _add_decorative_elements: element["type"] is read outside any try
RECURSIVE DecoLoop(_, _, _)
DecoLoop(st, elements, j) ==
    IF ~st.ok \/ j > Len(elements) THEN st
    ELSE LET element == elements[j]
             next == IF "type" \notin element.keys THEN Failed(st)
                     ELSE IF element.type = "height_chart" THEN add_height_chart(st, element, j)
                     ELSE IF element.type = "border" THEN add_border(st, element, j)
                     ELSE IF element.type = "divider_line" THEN add_divider_line(st, element, j)
                     ELSE st
         IN  DecoLoop(next, elements, j + 1)

add_decorative_elements(st, template) ==
    DecoLoop(st, IF "decorative_elements" \in template.keys
                 THEN template.decorative_elements ELSE <<>>, 1)

(***************************************************************************)
(* Entry points.                                                           *)
(***************************************************************************)
None == [status |-> "none", canvas |-> NoImage]

\* an unknown name falls back to a template of the store
Lookup_fallback(store, template_name) ==
    IF template_name \in DOMAIN store \/ DOMAIN store = {}
    THEN [found |-> template_name \in DOMAIN store, name |-> template_name]
    ELSE [found |-> TRUE, name |-> CHOOSE n \in DOMAIN store : TRUE]

\* `template_name not in self.templates`, then self.templates[template_name]
Lookup(store, template_name) ==
    IF template_name \in DOMAIN store
    THEN [found |-> TRUE, name |-> template_name]
    ELSE [found |-> FALSE, name |-> template_name]

\* template.get("dual_photo", False)
DualFlag(template) == "dual_photo" \in template.keys /\ template.dual_photo

\* any document with a list of slots counts as a dual template
IsDualTemplate_slotsOnly(template) == "image_positions" \in template.keys

\* `template.get("dual_photo", False) and "image_positions" in template`
IsDualTemplate(template) == DualFlag(template) /\ "image_positions" \in template.keys

\* base canvas, first step of both entry points
BaseCanvas(st, template, bgFile) ==
    LET canvas == create_canvas(template, bgFile)
    IN  IF ~canvas.ok THEN Failed(st)
        ELSE [st EXCEPT !.canvas = canvas.val,
                        !.log = Append(@, Event("background", 0,
                                                IF template.background.image = "ok"
                                                THEN "image" ELSE "color"))]

\* decorations drawn before the text
Overlays_decoFirst(st, template) ==
    LET decorated == IF st.ok THEN add_decorative_elements(st, template) ELSE st
    IN  IF decorated.ok THEN add_text_elements(decorated, template) ELSE decorated

\* text and decorations, last steps of both entry points
Overlays(st, template) ==
    LET texted == IF st.ok THEN add_text_elements(st, template) ELSE st
    IN  IF texted.ok THEN add_decorative_elements(texted, template) ELSE texted

\* the handler lets the exception through
CatchException_reraise(st) ==
    [ret |-> IF st.ok THEN [status |-> "canvas", canvas |-> st.canvas]
             ELSE [status |-> "raised", canvas |-> NoImage],
     log |-> st.log, front |-> st.front, side |-> st.side]

\* `except Exception` of both entry points: log the error, return None
CatchException(st) ==
    [ret |-> IF st.ok THEN [status |-> "canvas", canvas |-> st.canvas] ELSE None,
     log |-> st.log, front |-> st.front, side |-> st.side]

Start(front, side) ==
    [ok |-> TRUE, canvas |-> NoImage, log |-> <<>>, front |-> front, side |-> side]

\* the photo pass of process_image on the base canvas
ImageSlots(base, template) ==
    IF ~base.ok THEN base
    ELSE IF IsDualTemplate(template)
         THEN MirroredSlots(base, template.image_positions, 1)
         ELSE LegacySlot(base, template)

\* the body of process_image once the template is found
ProcessImageBody(image, template, bgFile) ==
    Overlays(ImageSlots(BaseCanvas(Start(image, NoImage), template, bgFile),
                        template),
             template)

process_image(image, template_name, store, bgFile) ==
    LET t == Lookup(store, template_name)
    IN  IF ~t.found
        THEN [ret |-> None, log |-> <<>>, front |-> image, side |-> NoImage]
        ELSE CatchException(ProcessImageBody(image, store[t.name], bgFile))

\* the photo pass of process_dual_images on the base canvas
PairSlots(base, template) ==
    IF ~base.ok THEN base ELSE DualSlots(base, template.image_positions, 1)

\* the body of process_dual_images once the template is found
ProcessDualBody(front_image, side_image, template, bgFile) ==
    Overlays(PairSlots(BaseCanvas(Start(front_image, side_image), template, bgFile),
                       template),
             template)

process_dual_images(front_image, side_image, template_name, store, bgFile) ==
    LET t == Lookup(store, template_name)
    IN  IF ~t.found
        THEN [ret |-> None, log |-> <<>>, front |-> front_image, side |-> side_image]
        ELSE IF ~IsDualTemplate(store[t.name])
             THEN [ret |-> None, log |-> <<>>, front |-> front_image, side |-> side_image]
             ELSE CatchException(ProcessDualBody(front_image, side_image,
                                                 store[t.name], bgFile))

NotRun == [ok |-> FALSE, val |-> NoImage, done |-> FALSE]

\* no template directory looked at, no store operation made
EmptyMap == [n \in {} |-> 0]

NoDirectory == [exists |-> FALSE, writable |-> FALSE, files |-> EmptyMap]

NoStoreOp ==
    [op |-> "none", name |-> "", ret |-> FALSE, found |-> NoDirectory, held |-> EmptyMap]

\* no text handed to _substitute_variables
NoSubst == [text |-> <<>>, school_name |-> <<>>, event_name |-> <<>>, event_date |-> <<>>]

NotSubstituted == [done |-> FALSE, text |-> <<>>]

StoreIdle == dir = NoDirectory /\ storeOp = NoStoreOp

SubstIdle == substIn = NoSubst /\ substOut = NotSubstituted

NoBox == [w0 |-> 1, h0 |-> 1, wt |-> 1, ht |-> 1]

BoxIdle == boxIn = NoBox /\ boxOut = [done |-> FALSE, op |-> "none", val |-> NoImage]

NoJsonFile == [state |-> "absent", doc |-> EmptyMap, writable |-> FALSE]

NoCfgOp == [op |-> "none", ret |-> FALSE]

CfgIdle == config_data = EmptyMap /\ config_file = NoJsonFile /\ cfgOp = NoCfgOp

\* the application object before __init__ has run
NoApp ==
    [connected |-> FALSE, template_var |-> "", dual_capture_state |-> "ready",
     first_image |-> 0, button_state |-> "normal", button_text |-> "mugshot",
     capture_count |-> 0]

NoClick ==
    [op |-> "none", outcome |-> "none", before |-> NoApp, shot |-> 0,
     composed |-> <<>>, saved |-> <<>>]

BoothIdle == app = NoApp /\ click = NoClick

PreviewIdle ==
    /\ preview_running = FALSE
    /\ preview = [t \in 1..MaxThreads |-> [at |-> "none", n |-> 0]]
    /\ gui = [at |-> "idle", n |-> 0]

RestIdle == BoxIdle /\ CfgIdle /\ BoothIdle /\ PreviewIdle

Done(r) == [ok |-> r.ok, val |-> r.val, done |-> TRUE]


(***************************************************************************)
(* The template documents, template names and photos of the model.         *)
(***************************************************************************)
Sizes == {<<MaxCanvas, MaxCanvas>>, <<MaxCanvas - 1, MaxCanvas>>}

BackgroundFile == BgFile(MaxCanvas - 1, MaxCanvas + 1)

PhotoSizes == {<<MaxPhoto, 1>>, <<1, MaxPhoto>>, <<MaxPhoto, MaxPhoto>>}

Names == {"t", "does_not_exist"}

SlotKeys == {"x", "y", "width", "height"}

Slot(name, x, y, width, height) ==
    [keys |-> SlotKeys, name |-> name, x |-> x, y |-> y,
     width |-> width, height |-> height]

SlotCoords == {-(MaxSlot + 1), -1, 0, 1, MaxCanvas - 1}

GeomSlots(name) ==
    {Slot(name, x, y, w, h) : x \in SlotCoords, y \in SlotCoords,
                              w \in 1..MaxSlot, h \in 1..MaxSlot}

InnerSlot(name) == Slot(name, 0, 0, MaxSlot, MaxSlot)

TextKeys == {"text", "position", "color"}

TextEl(keys, x, y, ew, eh, font_ok) ==
    [keys |-> keys, position |-> <<x, y>>, ext |-> <<ew, eh>>, font_ok |-> font_ok]

TextA == TextEl(TextKeys, 1, 1, 2, 1, TRUE)

TextB == TextEl(TextKeys, 2, 0, 1, 3, FALSE)

TextBad == TextEl({"position", "color"}, 0, 0, 1, 1, TRUE)

TextChoices == {<<>>, <<TextA>>, <<TextA, TextB>>, <<TextB, TextA>>, <<TextBad, TextA>>}

DecoEl(keys, type, x, y, height, width, x1, y1) ==
    [keys |-> keys, type |-> type, position |-> <<x, y>>, height |-> height,
     width |-> width, start |-> <<x, y>>, end |-> <<x1, y1>>]

Border == DecoEl({"type", "width", "color"}, "border", 0, 0, 0, 1, 0, 0)

Divider ==
    DecoEl({"type", "start", "end", "width", "color"}, "divider_line",
           0, 1, 0, 1, MaxCanvas - 1, 1)

DividerDefault == DecoEl({"type"}, "divider_line", 0, 0, 0, 0, 0, 0)

Chart == DecoEl({"type", "position", "height"}, "height_chart", 0, 2, 2 * LabelStep, 0, 0, 0)

\* a chart whose height is one more than a multiple of the label step
ChartTall ==
    DecoEl({"type", "position", "height"}, "height_chart", 1, 0, 2 * LabelStep + 1, 0, 0, 0)

ChartBad == DecoEl({"type", "position"}, "height_chart", 0, 2, 0, 0, 0, 0)

Logo == DecoEl({"type", "position", "size"}, "school_logo", 0, 0, 0, 0, 0, 0)

NoType == DecoEl({"position"}, "", 0, 0, 0, 0, 0, 0)

DecoChoices ==
    {<<>>, <<Border>>, <<Divider>>, <<Divider, Border>>, <<Border, Divider>>,
     <<Chart>>, <<Border, ChartTall>>, <<Logo, DividerDefault>>, <<ChartBad, Divider>>}

Background(keys, image) == [keys |-> keys, image |-> image]

\* image: "" none declared, "ok" loadable, "nofile" no such file,
\* "unreadable" cv2.imread returns None
Backgrounds ==
    {Background({"color", "image"}, i) : i \in {"", "ok", "nofile", "unreadable"}}

PlainBackground == Background({"color", "image"}, "")

CommonKeys ==
    {"name", "description", "final_size", "background", "text_elements",
     "decorative_elements"}

LegacyKeys == CommonKeys \cup {"image_position"}

DualKeys == CommonKeys \cup {"image_positions", "dual_photo"}

Doc(keys, size, background, dual, slot, slots, text, deco) ==
    [keys |-> keys, final_size |-> size, background |-> background,
     dual_photo |-> dual, image_position |-> slot,
     image_positions |-> slots, text_elements |-> text,
     decorative_elements |-> deco]

LegacyDoc(final_size, background, slot, text, deco) ==
    Doc(LegacyKeys, final_size, background, FALSE, slot, <<>>, text, deco)

DualDoc(final_size, background, slots, text, deco) ==
    Doc(DualKeys, final_size, background, TRUE, InnerSlot(""), slots, text, deco)

SlotNamePairs ==
    {<<"front_view", "side_view">>, <<"side_view", "front_view">>,
     <<"side_view", "side_view">>, <<"front_view", "">>}

\* documents that vary the slot geometry
GeomDocs ==
    {LegacyDoc(fs, PlainBackground, s, <<TextA>>, <<Border>>) :
        fs \in Sizes, s \in GeomSlots("")}
    \cup
    UNION {{DualDoc(<<MaxCanvas, MaxCanvas>>, PlainBackground,
                    <<InnerSlot(n[1]), s>>, <<TextA>>, <<Border>>) :
               s \in GeomSlots(n[2])} : n \in SlotNamePairs}

\* documents that vary the background, the text and the decorations
LayerDocs ==
    {LegacyDoc(<<MaxCanvas, MaxCanvas>>, b, InnerSlot(""), t, d) :
        b \in Backgrounds, t \in TextChoices, d \in DecoChoices}
    \cup
    {DualDoc(<<MaxCanvas - 1, MaxCanvas>>, b,
             <<InnerSlot("front_view"), Slot("side_view", 1, 1, MaxSlot, MaxSlot)>>, t, d) :
        b \in Backgrounds, t \in TextChoices, d \in DecoChoices}

GoodLegacy ==
    LegacyDoc(<<MaxCanvas, MaxCanvas>>, PlainBackground, InnerSlot(""), <<TextA>>, <<Border>>)

GoodDual ==
    DualDoc(<<MaxCanvas, MaxCanvas>>, PlainBackground,
            <<InnerSlot("front_view"), Slot("side_view", MaxSlot, 0, MaxSlot, MaxSlot)>>,
            <<TextA>>, <<Border>>)

\* documents with a missing key or a malformed element
MalformedDocs ==
    {[GoodLegacy EXCEPT !.keys = @ \ {k}] : k \in LegacyKeys}
    \cup {[GoodDual EXCEPT !.keys = @ \ {k}] : k \in DualKeys}
    \cup {[GoodLegacy EXCEPT !.image_position.keys = @ \ {k}] : k \in SlotKeys}
    \cup {[GoodDual EXCEPT !.image_positions[2].keys = @ \ {k}] : k \in SlotKeys}
    \cup {[GoodLegacy EXCEPT !.background.keys = {"image"}],
          [GoodDual EXCEPT !.decorative_elements = <<Border, NoType>>],
          [GoodLegacy EXCEPT !.dual_photo = TRUE, !.keys = @ \cup {"dual_photo"}],
          [GoodDual EXCEPT !.image_positions = <<>>],
          [GoodDual EXCEPT !.final_size = <<0, 0>>]}

Documents == GeomDocs \cup LayerDocs \cup MalformedDocs

(***************************************************************************)
(* The compositor: a store with one document, then compose calls.          *)
(***************************************************************************)
Idle == [op |-> "none", name |-> "", front |-> <<0, 0>>, side |-> <<0, 0>>]

Init ==
    /\ templates \in {[n \in {"t"} |-> d] : d \in Documents}
    /\ call = Idle
    /\ ret = None
    /\ drawLog = <<>>
    /\ frontBuf = NoImage
    /\ sideBuf = NoImage
    /\ fitIn = [w0 |-> 1, h0 |-> 1, wt |-> 1, ht |-> 1]
    /\ fitOut = NotRun
    /\ legacyOut = NotRun
    /\ StoreIdle
    /\ SubstIdle
    /\ RestIdle

\* what the caller holds once a compose call has returned
Returned(r) ==
    /\ ret' = r.ret
    /\ drawLog' = r.log
    /\ frontBuf' = r.front
    /\ sideBuf' = r.side

\* compose calls are synchronous: the caller makes one, takes what it
\* returned, and only then makes the next
ProcessImage ==
    \E size \in PhotoSizes, name \in Names :
        /\ call.op = "none"
        /\ call' = [op |-> "process_image", name |-> name,
                    front |-> size, side |-> <<0, 0>>]
        /\ Returned(process_image(Photo("front", size[1], size[2]), name,
                                  templates, BackgroundFile))
        /\ UNCHANGED <<templates, fitVars, storeVars, substVars, restVars>>

ProcessDualImages ==
    \E fsize \in PhotoSizes, ssize \in PhotoSizes, name \in Names :
        /\ call.op = "none"
        /\ call' = [op |-> "process_dual_images", name |-> name,
                    front |-> fsize, side |-> ssize]
        /\ Returned(process_dual_images(Photo("front", fsize[1], fsize[2]),
                                        Photo("side", ssize[1], ssize[2]), name,
                                        templates, BackgroundFile))
        /\ UNCHANGED <<templates, fitVars, storeVars, substVars, restVars>>

\* the caller saves or drops the returned image and is ready to call again
TakeResult ==
    /\ call.op # "none"
    /\ call' = Idle
    /\ ret' = None
    /\ drawLog' = <<>>
    /\ frontBuf' = NoImage
    /\ sideBuf' = NoImage
    /\ UNCHANGED <<templates, fitVars, storeVars, substVars, restVars>>

Next == ProcessImage \/ ProcessDualImages \/ TakeResult

Spec == Init /\ [][Next]_vars


(***************************************************************************)
(* What the properties below speak about.                                  *)
(***************************************************************************)
Range(seq) == {seq[k] : k \in 1..Len(seq)}

Found == call.op # "none" /\ call.name \in DOMAIN templates

Tpl == templates[call.name]

ReturnedCanvas == Found /\ ret.status = "canvas"

FrontPhoto == Photo("front", call.front[1], call.front[2])

SidePhoto == Photo("side", call.side[1], call.side[2])

IsDual(doc) ==
    "dual_photo" \in doc.keys /\ doc.dual_photo /\ "image_positions" \in doc.keys

\* the slots the call goes through
UsedSlots(doc) == IF IsDual(doc) THEN doc.image_positions ELSE <<doc.image_position>>

\* a document as the data model describes it: every field present, a
\* canvas and slots of positive size
WellFormedDoc(doc) ==
    /\ {"final_size", "background"} \subseteq doc.keys
    /\ "color" \in doc.background.keys
    /\ doc.final_size[1] >= 1 /\ doc.final_size[2] >= 1
    /\ IsDual(doc) \/ "image_position" \in doc.keys
    /\ \A i \in 1..Len(UsedSlots(doc)) :
          /\ UsedSlots(doc)[i].keys = SlotKeys
          /\ UsedSlots(doc)[i].width >= 1 /\ UsedSlots(doc)[i].height >= 1
    /\ \A j \in 1..Len(doc.decorative_elements) :
          "type" \in doc.decorative_elements[j].keys

Rect(slot) ==
    {p \in (slot.y..(slot.y + slot.height - 1)) \X (slot.x..(slot.x + slot.width - 1)) : TRUE}

InCanvas(slot, size) ==
    /\ slot.x >= 0 /\ slot.y >= 0
    /\ slot.x + slot.width <= size[1] /\ slot.y + slot.height <= size[2]

\* some of the rectangle is on the canvas and some of it is not
PartlyOutside(slot, size) ==
    /\ slot.x < size[1] /\ slot.y < size[2]
    /\ slot.x + slot.width > 0 /\ slot.y + slot.height > 0
    /\ \/ slot.x + slot.width > size[1] \/ slot.y + slot.height > size[2]
       \/ slot.x < 0 \/ slot.y < 0

\* the canvas cells the placement of a slot assigns to
WrittenCells(slot, size) ==
    IF slot.y + slot.height <= size[2] /\ slot.x + slot.width <= size[1]
    THEN LET rows == SliceRange(slot.y, slot.y + slot.height, size[2])
             cols == SliceRange(slot.x, slot.x + slot.width, size[1])
         IN  (rows[1]..(rows[1] + rows[2] - 1)) \X (cols[1]..(cols[1] + cols[2] - 1))
    ELSE {}

LaterCells(slots, i, size) ==
    UNION {WrittenCells(slots[j], size) : j \in (i + 1)..Len(slots)}

PhotoLayer(pixel) == pixel[1] \in {"photo", "white"}

\* C2: a slot partly outside the canvas is skipped and the call still
\* returns a canvas
OutOfBoundsSlotOmitted ==
    (/\ Found
     /\ WellFormedDoc(Tpl)
     /\ call.op = "process_dual_images" => IsDual(Tpl))
    => \A i \in 1..Len(UsedSlots(Tpl)) :
          PartlyOutside(UsedSlots(Tpl)[i], Tpl.final_size)
          => /\ ret.status = "canvas"
             /\ Event("photo", i, "skipped") \in Range(drawLog)
             /\ \A p \in DOMAIN ret.canvas.px :
                   (/\ p \in Rect(UsedSlots(Tpl)[i])
                    /\ \A k \in 1..Len(UsedSlots(Tpl)) :
                          k # i => p \notin Rect(UsedSlots(Tpl)[k]))
                   => ~PhotoLayer(ret.canvas.px[p])

\* C3: the canvas process_image returns has the template's final_size
CanvasHasFinalSize ==
    (call.op = "process_image" /\ ReturnedCanvas)
    => /\ ret.canvas.w = Tpl.final_size[1]
       /\ ret.canvas.h = Tpl.final_size[2]
       /\ DOMAIN ret.canvas.px = Coords(Tpl.final_size[1], Tpl.final_size[2])

WitnessCanvasSize ==
    /\ call.op = "process_image" /\ ReturnedCanvas
    /\ Tpl.background.image = "ok"
    /\ <<BackgroundFile.w, BackgroundFile.h>> # Tpl.final_size
    /\ \E e \in Range(drawLog) : e.ev = "text"
    /\ \E e \in Range(drawLog) : e.ev = "deco"

\* C4: a compose call returns a canvas or None, no exception leaves it
NoExceptionEscapes ==
    call.op # "none" => ret.status \in {"canvas", "none"}

WitnessInternalFailure ==
    /\ Found
    /\ ~WellFormedDoc(Tpl)
    /\ ret.status = "none"
    /\ drawLog # <<>>

\* C5: for an unknown template name both entry points return None, draw
\* nothing and leave the store as it was
UnknownTemplateFails ==
    /\ [](call.op # "none" /\ call.name \notin DOMAIN templates
            => ret = None /\ drawLog = <<>>)
    /\ [][call'.op # "none" /\ call'.name \notin DOMAIN templates
            => templates' = templates]_vars

WitnessUnknownTemplate ==
    /\ call.op = "process_dual_images"
    /\ call.name \notin DOMAIN templates
    /\ ret = None

\* the image a slot of process_dual_images is to be filled from
RoutedImage(slot) == IF slot.name = "side_view" THEN "side" ELSE "front"

\* C6: process_dual_images fills the slot named side_view from the side
\* image and every other slot from the front image, each at its own
\* rectangle
DualSlotRouting ==
    (call.op = "process_dual_images" /\ ReturnedCanvas)
    => LET slots == Tpl.image_positions
       IN  /\ \A i \in 1..Len(slots) :
                 /\ Event("fit", i, RoutedImage(slots[i])) \in Range(drawLog)
                 /\ \A e \in Range(drawLog) :
                       (e.ev = "fit" /\ e.i = i) => e.what = RoutedImage(slots[i])
           /\ \A p \in DOMAIN ret.canvas.px :
                 ret.canvas.px[p][1] = "photo"
                 => \E i \in 1..Len(slots) :
                       /\ p \in Rect(slots[i])
                       /\ ret.canvas.px[p][2] = RoutedImage(slots[i])

\* the same call with the front and the side photo exchanged
SwappedRet ==
    process_dual_images(SidePhoto, FrontPhoto, call.name, templates, BackgroundFile).ret

FrontThenSide(doc) ==
    /\ Len(doc.image_positions) = 2
    /\ doc.image_positions[1].name = "front_view"
    /\ doc.image_positions[2].name = "side_view"

ExpectedPixel(slot, p) ==
    LET q == process_photo_for_position(FrontPhoto, slot.width, slot.height)
                .val.px[<<p[1] - slot.y, p[2] - slot.x>>]
    IN  IF slot.name = "side_view" /\ q[1] = "photo"
        THEN <<q[1], q[2], q[3], call.front[1] - 1 - q[4]>>
        ELSE q

\* C8: process_image on a dual template puts the mirrored photo into the
\* slot named side_view and the photo as it is into every other slot, and
\* leaves the caller's photo as it was
MirroredSideView ==
    /\ call.op = "process_image" => frontBuf = FrontPhoto
    /\ (call.op = "process_image" /\ ReturnedCanvas /\ IsDual(Tpl))
       => LET slots == Tpl.image_positions
          IN  \A i \in 1..Len(slots) :
                 InCanvas(slots[i], Tpl.final_size)
                 => \A p \in Rect(slots[i]) \ LaterCells(slots, i, Tpl.final_size) :
                       PhotoLayer(ret.canvas.px[p])
                       => ret.canvas.px[p] = ExpectedPixel(slots[i], p)

WitnessMirrored ==
    /\ call.op = "process_image" /\ ReturnedCanvas /\ IsDual(Tpl)
    /\ \E i \in 1..Len(Tpl.image_positions) :
          LET slot == Tpl.image_positions[i]
          IN  /\ slot.name = "side_view"
              /\ InCanvas(slot, Tpl.final_size)
              /\ \E p \in Rect(slot) \ LaterCells(Tpl.image_positions, i, Tpl.final_size) :
                    /\ ret.canvas.px[p][1] = "photo"
                    /\ ret.canvas.px[p] #
                         process_photo_for_position(FrontPhoto, slot.width, slot.height)
                            .val.px[<<p[1] - slot.y, p[2] - slot.x>>]

\* the arrays a compose call is given or reads: the caller's photos and
\* the decoded background file
InputBuffers == {"front", "side", "cv2.imread"}

\* C16: a compose call leaves the caller's photos as they were, and the
\* canvas it returns is an array of its own: not one of the photos and not
\* the decoded background image; on the single and on the dual path
CallerBuffersUntouched ==
    /\ call.op # "none" => frontBuf = FrontPhoto
    /\ call.op = "process_dual_images" => sideBuf = SidePhoto
    /\ ReturnedCanvas => ret.canvas.buf \notin InputBuffers

WitnessBuffersUntouched ==
    /\ call.op = "process_image" /\ ReturnedCanvas /\ IsDual(Tpl)
    /\ Tpl.background.image = "ok"
    /\ call.front[1] > 1
    /\ \E k \in 1..Len(drawLog), i \in 1..Len(Tpl.image_positions) :
          /\ drawLog[k] = Event("fit", i, "mirrored")
          /\ k < Len(drawLog) /\ drawLog[k + 1] = Event("photo", i, "placed")
    /\ \E p \in DOMAIN ret.canvas.px : ret.canvas.px[p][1] = "bg"

\* what the call would have returned had the template named no background
\* image
ColourOnlyRet ==
    LET store == [templates EXCEPT ![call.name].background.image = ""]
    IN  IF call.op = "process_image"
        THEN process_image(FrontPhoto, call.name, store, BackgroundFile).ret
        ELSE process_dual_images(FrontPhoto, SidePhoto, call.name, store, BackgroundFile).ret

\* C17: the base canvas is the background image when the template names
\* one that exists and can be decoded, and the solid background colour
\* otherwise; a call whose background image is missing or unreadable
\* returns what it returns without a background image
BackgroundImageOrColour ==
    Found
    => LET image == Tpl.background.image
           plain == ColourOnlyRet
           made == \E k \in 1..Len(drawLog) : drawLog[k].ev = "background"
       IN  /\ made => drawLog[1] = Event("background", 0,
                                         IF image = "ok" THEN "image" ELSE "color")
           /\ ReturnedCanvas
              => /\ made
                 /\ \A p \in DOMAIN ret.canvas.px :
                       ret.canvas.px[p][1] = "bg"
                       => ret.canvas.px[p][2] = IF image = "ok" THEN "image" ELSE "color"
           /\ image # "ok" => ret = plain

WitnessBackgroundFallback ==
    /\ ReturnedCanvas
    /\ Tpl.background.image \in {"nofile", "unreadable"}
    /\ \E p \in DOMAIN ret.canvas.px : ret.canvas.px[p] = BgColor

\* what the call would have returned and drawn had the template held no
\* text element
NoTextCall ==
    LET store == [templates EXCEPT ![call.name].text_elements = <<>>]
    IN  IF call.op = "process_image"
        THEN process_image(FrontPhoto, call.name, store, BackgroundFile)
        ELSE process_dual_images(FrontPhoto, SidePhoto, call.name, store, BackgroundFile)

IsTextEvent(e) == e.ev = "text"

NotTextEvent(e) == e.ev # "text"

Renderable(element) == {"text", "position", "color"} \subseteq element.keys

\* the text elements the call goes through
TextElements(doc) == IF "text_elements" \in doc.keys THEN doc.text_elements ELSE <<>>

\* the draw an element of the list makes: none for one that raises, one
\* with the default font for one whose font cannot be loaded
RECURSIVE TextDraws(_, _)
TextDraws(elements, i) ==
    IF i > Len(elements) THEN <<>>
    ELSE (IF Renderable(elements[i])
          THEN <<Event("text", i, IF elements[i].font_ok
                                  THEN "truetype" ELSE "default_font")>>
          ELSE <<>>) \o TextDraws(elements, i + 1)

\* C18: no text element makes a compose call fail.  The call returns a
\* canvas exactly when it does without any text element; an element whose
\* font cannot be loaded is drawn with the default font, an element that
\* raises is left out, every other text element is drawn, and the photos
\* and decorations are drawn as they are without text
TextFailuresContained ==
    Found
    => LET without == NoTextCall
       IN  /\ ret.status = without.ret.status
           /\ ReturnedCanvas
              => /\ SelectSeq(drawLog, IsTextEvent) = TextDraws(TextElements(Tpl), 1)
                 /\ SelectSeq(drawLog, NotTextEvent) = without.log

WitnessTextFailure ==
    /\ ReturnedCanvas
    /\ \E i \in 1..Len(TextElements(Tpl)), k \in 1..Len(drawLog) :
          /\ ~Renderable(TextElements(Tpl)[i])
          /\ drawLog[k].ev = "text" /\ drawLog[k].i > i
    /\ \E k \in 1..Len(drawLog) : drawLog[k].ev = "deco"

Positions(log, ev) == {k \in 1..Len(log) : log[k].ev = ev}

\* C19: a call that returns a canvas converts it to the channel order of
\* the text renderer once and back once, the first before every text draw
\* and the second after every text draw, however many text elements the
\* template has; the canvas returned has the channel order of the inputs
ConvertedOnceEachWay ==
    ReturnedCanvas
    => LET forth == Positions(drawLog, "to_rgb")
           back == Positions(drawLog, "to_bgr")
           texts == Positions(drawLog, "text")
       IN  /\ Cardinality(forth) = 1 /\ Cardinality(back) = 1
           /\ \A f \in forth, b \in back :
                 /\ f < b
                 /\ \A t \in texts : f < t /\ t < b
           /\ ret.canvas.order = FrontPhoto.order

WitnessConvertedOnce ==
    /\ ReturnedCanvas
    /\ Cardinality(Positions(drawLog, "text")) >= 2
    /\ Cardinality(Positions(drawLog, "to_rgb")) = 1

\* the same with no text element at all
WitnessConvertedNoText ==
    /\ ReturnedCanvas
    /\ TextElements(Tpl) = <<>>
    /\ Cardinality(Positions(drawLog, "to_bgr")) = 1

\* the draws of decorative element j: what follows its entry in the log up
\* to the entry of the next decorative element
ChartDraws(log, j) ==
    LET at == CHOOSE k \in 1..Len(log) : log[k].ev = "deco" /\ log[k].i = j
        later == {k \in (at + 1)..Len(log) : log[k].ev = "deco"}
        end == IF later = {} THEN Len(log) ELSE (CHOOSE k \in later : \A m \in later : k <= m) - 1
    IN  SubSeq(log, at + 1, end)

IsChart(element) ==
    /\ "type" \in element.keys /\ element.type = "height_chart"
    /\ {"position", "height"} \subseteq element.keys

Decorations(doc) ==
    IF "decorative_elements" \in doc.keys THEN doc.decorative_elements ELSE <<>>

\* C20: a height_chart at (x, y) with height h gets one tick for every
\* offset i of 0, 50, 100, ... below h, drawn on row y + i, and one label
\* for every such i that is a multiple of 100, its value i / 10; no other
\* tick and no other label is drawn
HeightChartTicks ==
    ReturnedCanvas
    => LET decos == Decorations(Tpl)
           canvas == ret.canvas
       IN  \A j \in 1..Len(decos) :
              IsChart(decos[j])
              => LET draws == ChartDraws(drawLog, j)
                     x == decos[j].position[1]
                     y == decos[j].position[2]
                     h == decos[j].height
                     ticks == {k \in 1..Len(draws) : draws[k].ev = "tick"}
                     labels == {k \in 1..Len(draws) : draws[k].ev = "label"}
                 IN  /\ DOMAIN draws = ticks \cup labels
                     /\ {draws[k].i : k \in ticks} = {i \in 0..(h - 1) : i % 50 = 0}
                     /\ \A k \in ticks, m \in ticks : draws[k].i = draws[m].i => k = m
                     /\ \A k \in ticks :
                           /\ (draws[k].i % 100 = 0) <=> (k + 1) \in labels
                           /\ (k + 1) \in labels => draws[k + 1].i * 10 = draws[k].i
                           /\ (j = Len(decos) /\ <<y + draws[k].i, x>> \in DOMAIN canvas.px)
                              => canvas.px[<<y + draws[k].i, x>>] = DecoPixel(j)
                     /\ \A k \in labels : (k - 1) \in ticks

WitnessHeightChart ==
    /\ ReturnedCanvas
    /\ \E j \in 1..Len(Decorations(Tpl)) :
          /\ IsChart(Decorations(Tpl)[j])
          /\ Decorations(Tpl)[j].height % 50 # 0
          /\ \E k \in 1..Len(drawLog) : drawLog[k] = Event("label", 20, "height_chart")
          /\ ret.canvas.px[<<Decorations(Tpl)[j].position[2],
                             Decorations(Tpl)[j].position[1]>>] = DecoPixel(j)

\* the cells a decorative element draws on
DecoCells(c, element) ==
    IF "type" \notin element.keys THEN {}
    ELSE IF element.type = "border" THEN BorderFootprint(c, BorderWidth(element))
    ELSE IF element.type = "divider_line" THEN DividerFootprint(c, element)
    ELSE IF element.type = "height_chart" /\ {"position", "height"} \subseteq element.keys
         THEN UNION {LineFootprint(c, element.position[1], element.position[2] + i,
                                   element.position[1] + TickLength,
                                   element.position[2] + i, TickThickness) :
                        i \in TickOffsets(element.height)}
    ELSE {}

\* the cells a text element draws on
TextCells(c, element) ==
    IF TextKeys \subseteq element.keys THEN TextFootprint(c, element) ELSE {}

Top(S) == CHOOSE m \in S : \A n \in S : n <= m

PassOf(e) ==
    IF e.ev = "background" THEN 0
    ELSE IF e.ev \in {"fit", "photo"} THEN 1
    ELSE IF e.ev = "to_rgb" THEN 2
    ELSE IF e.ev = "text" THEN 3
    ELSE IF e.ev = "to_bgr" THEN 4
    ELSE 5

\* C9: the layers are drawn background, photo slots, text elements in list
\* order, decorative elements in list order, and every pixel belongs to
\* the last layer drawn over it
LayerOrder ==
    ReturnedCanvas
    => LET c == ret.canvas
           texts == IF "text_elements" \in Tpl.keys THEN Tpl.text_elements ELSE <<>>
           decos == IF "decorative_elements" \in Tpl.keys
                    THEN Tpl.decorative_elements ELSE <<>>
           decoCells == UNION {{<<j, q>> : q \in DecoCells(c, decos[j])} :
                                 j \in 1..Len(decos)}
           textCells == UNION {{<<i, q>> : q \in TextCells(c, texts[i])} :
                                 i \in 1..Len(texts)}
           D(p) == {j \in 1..Len(decos) : <<j, p>> \in decoCells}
           T(p) == {i \in 1..Len(texts) : <<i, p>> \in textCells}
           InSlot(p) == \E k \in 1..Len(UsedSlots(Tpl)) :
                           /\ InCanvas(UsedSlots(Tpl)[k], Tpl.final_size)
                           /\ p \in Rect(UsedSlots(Tpl)[k])
       IN  /\ \A p \in DOMAIN c.px :
                 IF D(p) # {} THEN c.px[p] = DecoPixel(Top(D(p)))
                 ELSE IF T(p) # {} THEN c.px[p] = TextPixel(Top(T(p)))
                 ELSE IF InSlot(p) THEN PhotoLayer(c.px[p])
                 ELSE c.px[p][1] \in {"bg", "photo", "white"}
           /\ \A a \in 1..Len(drawLog) : \A b \in (a + 1)..Len(drawLog) :
                 /\ PassOf(drawLog[a]) <= PassOf(drawLog[b])
                 /\ (drawLog[a].ev = drawLog[b].ev /\ drawLog[a].ev \in {"text", "deco"})
                    => drawLog[a].i < drawLog[b].i

WitnessLayers ==
    /\ ReturnedCanvas
    /\ Len(Tpl.text_elements) = 2 /\ Len(Tpl.decorative_elements) = 2
    /\ \E p \in DOMAIN ret.canvas.px :
          /\ \A i \in 1..2 : p \in TextCells(ret.canvas, Tpl.text_elements[i])
          /\ \A j \in 1..2 : p \in DecoCells(ret.canvas, Tpl.decorative_elements[j])
          /\ \E k \in 1..Len(UsedSlots(Tpl)) :
                /\ InCanvas(UsedSlots(Tpl)[k], Tpl.final_size)
                /\ p \in Rect(UsedSlots(Tpl)[k])
          /\ ret.canvas.px[p] = DecoPixel(2)


(***************************************************************************)
(* The fit step on its own: the inputs are drawn in FitInit.               *)
(***************************************************************************)
FitInputs ==
    [w0 : 1..MaxSrcW, h0 : 1..MaxSrcH, wt : 1..MaxTgtW, ht : 1..MaxTgtH]

FitInit ==
    /\ templates = EmptyMap
    /\ call = Idle
    /\ ret = None
    /\ drawLog = <<>>
    /\ frontBuf = NoImage
    /\ sideBuf = NoImage
    /\ fitIn \in FitInputs
    /\ fitOut = NotRun
    /\ legacyOut = NotRun
    /\ StoreIdle
    /\ SubstIdle
    /\ RestIdle

FitForPosition ==
    /\ ~fitOut.done
    /\ fitOut' = Done(process_photo_for_position(
                        Photo("front", fitIn.w0, fitIn.h0), fitIn.wt, fitIn.ht))
    /\ UNCHANGED <<fitIn, legacyOut, composeVars, storeVars, substVars, restVars>>

FitLegacy ==
    /\ ~legacyOut.done
    /\ legacyOut' = Done(process_photo(
                        Photo("front", fitIn.w0, fitIn.h0), fitIn.wt, fitIn.ht))
    /\ UNCHANGED <<fitIn, fitOut, composeVars, storeVars, substVars, restVars>>

FitNext == FitForPosition \/ FitLegacy

SpecFit == FitInit /\ [][FitNext]_vars

\* C1: the fill-and-crop output has the slot's size and no pixel keeps the
\* white fill colour
FillAndCropCovers ==
    fitOut.done =>
        /\ fitOut.ok
        /\ fitOut.val.w = fitIn.wt /\ fitOut.val.h = fitIn.ht
        /\ \A p \in Coords(fitIn.wt, fitIn.ht) : fitOut.val.px[p] # White

\* C10: the legacy single-slot fit gives what fill-and-crop gives: one
\* scale factor on both axes and a centre crop
LegacyFitIsFillAndCrop ==
    (fitOut.done /\ legacyOut.done)
    => /\ fitOut.ok /\ legacyOut.ok
       /\ legacyOut.val.w = fitOut.val.w /\ legacyOut.val.h = fitOut.val.h
       /\ legacyOut.val.px = fitOut.val.px


(***************************************************************************)
(* The template store: the directory of *.json documents and the mapping   *)
(* TemplateProcessor.templates.  A file is the pair of whether json.load   *)
(* parses it and the document it then yields; the documents of the model   *)
(* hold lists, strings and numbers only, which json.dump and json.load     *)
(* give back as they were.                                                 *)
(***************************************************************************)
File(doc) == [parses |-> TRUE, doc |-> doc]

\* a file json.load raises on: cut short, empty or not JSON at all
Unparseable == [parses |-> FALSE, doc |-> EmptyMap]

\* m with key k bound to v
Put(m, k, v) == [n \in DOMAIN m \cup {k} |-> IF n = k THEN v ELSE m[n]]

\* the three documents create_default_templates writes, all single-slot
DefaultTemplate ==
    LegacyDoc(<<MaxCanvas, MaxCanvas>>, PlainBackground, InnerSlot(""), <<TextA>>, <<Chart>>)

SchoolTemplate ==
    LegacyDoc(<<MaxCanvas, MaxCanvas>>, PlainBackground, InnerSlot(""),
              <<TextA, TextB>>, <<Logo, DividerDefault>>)

PartyTemplate ==
    LegacyDoc(<<MaxCanvas, MaxCanvas>>, PlainBackground, InnerSlot(""),
              <<TextB, TextA>>, <<Chart>>)

Written(d, name, file) == [d EXCEPT !.files = Put(@, name, file)]

\* create_default_templates: open(..., 'w') and json.dump, three times
create_default_templates(d) ==
    IF ~d.exists \/ ~d.writable
    THEN [ok |-> FALSE, dir |-> d]
    ELSE [ok |-> TRUE,
          dir |-> Written(Written(Written(d, "default", File(DefaultTemplate)),
                                  "school", File(SchoolTemplate)),
                          "party", File(PartyTemplate))]

\* template_dir.mkdir(parents=True, exist_ok=True)
MakeDirectory(d) ==
    IF d.writable THEN [ok |-> TRUE, dir |-> [d EXCEPT !.exists = TRUE]]
    ELSE [ok |-> FALSE, dir |-> d]

DefaultsInto(made) ==
    IF made.ok THEN create_default_templates(made.dir) ELSE made

\* `if not self.template_dir.exists()`: make the directory and the defaults
EnsureDirectory(d) ==
    IF d.exists THEN [ok |-> TRUE, dir |-> d] ELSE DefaultsInto(MakeDirectory(d))

\* one iteration of the loop: a document that fails to load is logged
LoadOne(store, files, template_name) ==
    IF files[template_name].parses
    THEN Put(store, template_name, files[template_name].doc)
    ELSE store

\* the loop gives up at the first document that fails to load
RECURSIVE LoadLoop_abort(_, _, _)
LoadLoop_abort(store, files, order) ==
    IF order = <<>> THEN store
    ELSE IF ~files[Head(order)].parses THEN store
    ELSE LoadLoop_abort(LoadOne(store, files, Head(order)), files, Tail(order))

\* `for template_file in self.template_dir.glob("*.json")`, in glob's order
RECURSIVE LoadLoop(_, _, _)
LoadLoop(store, files, order) ==
    IF order = <<>> THEN store
    ELSE LoadLoop(LoadOne(store, files, Head(order)), files, Tail(order))

\* the orders glob may visit the files of a directory in
Orders(S) ==
    {order \in [1..Cardinality(S) -> S] :
        \A a \in 1..Cardinality(S) : \A b \in 1..Cardinality(S) :
            order[a] = order[b] => a = b}

\* load_templates once the directory step is through; an exception of that
\* step is caught by the outer handler and nothing is loaded
LoadEnsured(store, ensured, order) ==
    [templates |-> IF ensured.ok THEN LoadLoop(store, ensured.dir.files, order)
                   ELSE store,
     dir |-> ensured.dir]

\* the template is registered although it could not be written
add_custom_template_registerFirst(store, d, name, config) ==
    [ret |-> d.exists /\ d.writable /\ config.serialisable,
     templates |-> Put(store, name, config.doc),
     dir |-> IF d.exists /\ d.writable
             THEN Written(d, name, IF config.serialisable THEN File(config.doc)
                                   ELSE Unparseable)
             ELSE d]

\* add_custom_template(name, template_config): open, json.dump, register.
\* json.dump raises on a value JSON cannot hold, with the file already open
add_custom_template(store, d, name, config) ==
    IF ~d.exists \/ ~d.writable
    THEN [ret |-> FALSE, templates |-> store, dir |-> d]
    ELSE IF ~config.serialisable
    THEN [ret |-> FALSE, templates |-> store, dir |-> Written(d, name, Unparseable)]
    ELSE [ret |-> TRUE, templates |-> Put(store, name, config.doc),
          dir |-> Written(d, name, File(config.doc))]

(***************************************************************************)
(* The store on its own: a directory as it is found, a TemplateProcessor   *)
(* constructed on it, then custom templates added and, as the settings     *)
(* dialog does, the processor constructed anew.                            *)
(***************************************************************************)
Stems == {"default", "custom", "extra"}

StoredFiles == {File(GoodLegacy), File(GoodDual), Unparseable}

Directories ==
    {[exists |-> FALSE, writable |-> w, files |-> EmptyMap] : w \in BOOLEAN}
    \cup
    UNION {{[exists |-> TRUE, writable |-> w, files |-> f] :
               w \in BOOLEAN, f \in [S -> StoredFiles]} : S \in SUBSET Stems}

Configs ==
    {[serialisable |-> TRUE, doc |-> GoodDual],
     [serialisable |-> TRUE, doc |-> DefaultTemplate],
     [serialisable |-> FALSE, doc |-> GoodLegacy]}

StoreInit ==
    /\ templates = EmptyMap
    /\ dir \in Directories
    /\ storeOp = NoStoreOp
    /\ call = Idle
    /\ ret = None
    /\ drawLog = <<>>
    /\ frontBuf = NoImage
    /\ sideBuf = NoImage
    /\ fitIn = [w0 |-> 1, h0 |-> 1, wt |-> 1, ht |-> 1]
    /\ fitOut = NotRun
    /\ legacyOut = NotRun
    /\ SubstIdle
    /\ RestIdle

Loaded(r) ==
    /\ templates' = r.templates
    /\ dir' = r.dir
    /\ storeOp' = [op |-> "load", name |-> "", ret |-> TRUE,
                   found |-> dir, held |-> EmptyMap]

GlobAndLoad(ensured) ==
    \E order \in Orders(DOMAIN ensured.dir.files) :
        Loaded(LoadEnsured(EmptyMap, ensured, order))

\* TemplateProcessor(config): self.templates = {}, then load_templates()
Construct ==
    /\ GlobAndLoad(EnsureDirectory(dir))
    /\ UNCHANGED <<call, ret, drawLog, frontBuf, sideBuf, fitVars, substVars, restVars>>

Added(r, name) ==
    /\ templates' = r.templates
    /\ dir' = r.dir
    /\ storeOp' = [op |-> "add", name |-> name, ret |-> r.ret,
                   found |-> dir, held |-> templates]

AddCustomTemplate ==
    /\ storeOp.op # "none"
    /\ \E name \in Stems, config \in Configs :
          Added(add_custom_template(templates, dir, name, config), name)
    /\ UNCHANGED <<call, ret, drawLog, frontBuf, sideBuf, fitVars, substVars, restVars>>

StoreNext == Construct \/ AddCustomTemplate

SpecStore == StoreInit /\ [][StoreNext]_vars


(***************************************************************************)
(* Properties of the template store.                                       *)
(***************************************************************************)
BuiltIn == {"default", "school", "party"}

\* C11: after a load from a directory that is absent, or that exists and
\* holds no template document, the directory exists and the mapping holds
\* the built-in templates default, school and party
DefaultsWhenNoDocuments ==
    (/\ storeOp.op = "load"
     /\ storeOp.found.writable
     /\ (~storeOp.found.exists \/ DOMAIN storeOp.found.files = {}))
    => /\ dir.exists
       /\ BuiltIn \subseteq DOMAIN templates

\* C13: add_custom_template either writes the document, registers it under
\* the name and returns True, or returns False and leaves the mapping as it
\* was
AddCustomAllOrNothing ==
    storeOp.op = "add"
    => \/ /\ storeOp.ret
          /\ storeOp.name \in DOMAIN templates
          /\ templates[storeOp.name] \in {c.doc : c \in Configs}
          /\ dir.exists
          /\ storeOp.name \in DOMAIN dir.files
          /\ dir.files[storeOp.name] = File(templates[storeOp.name])
          /\ DOMAIN templates = DOMAIN storeOp.held \cup {storeOp.name}
          /\ \A n \in DOMAIN storeOp.held :
                n # storeOp.name => templates[n] = storeOp.held[n]
       \/ /\ ~storeOp.ret
          /\ templates = storeOp.held

\* add_custom_template failed at json.dump on a name that was registered
WitnessAddFailed ==
    /\ storeOp.op = "add"
    /\ ~storeOp.ret
    /\ storeOp.found.exists /\ storeOp.found.writable
    /\ storeOp.name \in DOMAIN storeOp.held
    /\ dir.files[storeOp.name] = Unparseable

\* C14: a load registers every document that parses under its file stem,
\* whatever the order the files are visited in, and registers no document
\* that does not parse
MalformedSkipped ==
    (storeOp.op = "load" /\ storeOp.found.exists)
    => /\ \A n \in DOMAIN storeOp.found.files :
             IF storeOp.found.files[n].parses
             THEN n \in DOMAIN templates /\ templates[n] = storeOp.found.files[n].doc
             ELSE n \notin DOMAIN templates
       /\ DOMAIN templates \subseteq DOMAIN storeOp.found.files

\* a load of a directory with two good documents and a malformed one
WitnessMalformedSkipped ==
    /\ storeOp.op = "load"
    /\ storeOp.found.exists
    /\ DOMAIN storeOp.found.files = Stems
    /\ ~storeOp.found.files["custom"].parses
    /\ storeOp.found.files["default"].parses
    /\ storeOp.found.files["extra"].parses
    /\ DOMAIN templates = {"default", "extra"}

(***************************************************************************)
(* Further properties of the compositor.                                   *)
(***************************************************************************)
\* C12: process_dual_images returns None, and draws nothing, for every
\* known template whose dual_photo flag is false or absent or that has no
\* image_positions list
DualNeedsDeclaration ==
    (/\ call.op = "process_dual_images"
     /\ Found
     /\ ~("dual_photo" \in Tpl.keys /\ Tpl.dual_photo /\ "image_positions" \in Tpl.keys))
    => ret = None /\ drawLog = <<>>

\* process_dual_images on a template that lists slots but has no flag
WitnessNotDual ==
    /\ call.op = "process_dual_images"
    /\ Found
    /\ "image_positions" \in Tpl.keys
    /\ "dual_photo" \notin Tpl.keys
    /\ ret = None


(***************************************************************************)
(* Text substitution.  A string is the sequence of its characters.         *)
(***************************************************************************)
SchoolVar == <<"{", "s", "c", "h", "o", "o", "l", "_", "n", "a", "m", "e", "}">>

EventVar == <<"{", "e", "v", "e", "n", "t", "_", "n", "a", "m", "e", "}">>

DateVar == <<"{", "e", "v", "e", "n", "t", "_", "d", "a", "t", "e", "}">>

\* whether old occurs in text at index i
OccursAt(text, old, i) ==
    /\ i + Len(old) - 1 <= Len(text)
    /\ \A k \in 1..Len(old) : text[i + k - 1] = old[k]

\* str.replace(old, new) from index i on: leftmost occurrences, not overlapping
RECURSIVE ReplaceFrom(_, _, _, _)
ReplaceFrom(text, old, new, i) ==
    IF i > Len(text) THEN <<>>
    ELSE IF OccursAt(text, old, i)
    THEN new \o ReplaceFrom(text, old, new, i + Len(old))
    ELSE <<text[i]>> \o ReplaceFrom(text, old, new, i + 1)

replace(text, old, new) == ReplaceFrom(text, old, new, 1)

\* _substitute_variables: one text.replace per entry of the dict, in the
\* order the dict was written in
substitute_variables(text, config) ==
    replace(replace(replace(text, SchoolVar, config.school_name),
                    EventVar, config.event_name),
            DateVar, config.event_date)

(***************************************************************************)
(* The substitution on its own, on texts made of a few pieces.             *)
(***************************************************************************)
UnknownVar == <<"{", "u", "n", "k", "n", "o", "w", "n", "_", "v", "a", "r", "}">>

Pieces ==
    {SchoolVar, EventVar, DateVar, UnknownVar, <<"a">>, <<"{">>, <<"}">>,
     <<"{", "e", "v", "e", "n", "t", "_">>, <<"n", "a", "m", "e", "}">>}

RECURSIVE Join(_)
Join(pieces) == IF pieces = <<>> THEN <<>> ELSE Head(pieces) \o Join(Tail(pieces))

Texts == UNION {{Join(ps) : ps \in [1..n -> Pieces]} : n \in 0..MaxPieces}

ConfigValues == {<<>>, <<"L", "H">>, EventVar, DateVar}

SubstInputs ==
    [text : Texts, school_name : ConfigValues, event_name : ConfigValues,
     event_date : {<<"2", "5">>}]

SubstInit ==
    /\ substIn \in SubstInputs
    /\ substOut = NotSubstituted
    /\ templates = EmptyMap
    /\ call = Idle
    /\ ret = None
    /\ drawLog = <<>>
    /\ frontBuf = NoImage
    /\ sideBuf = NoImage
    /\ fitIn = [w0 |-> 1, h0 |-> 1, wt |-> 1, ht |-> 1]
    /\ fitOut = NotRun
    /\ legacyOut = NotRun
    /\ StoreIdle
    /\ RestIdle

SubstituteVariables ==
    /\ ~substOut.done
    /\ substOut' = [done |-> TRUE, text |-> substitute_variables(substIn.text, substIn)]
    /\ UNCHANGED <<substIn, composeVars, fitVars, storeVars, restVars>>

SubstNext == SubstituteVariables

SpecSubst == SubstInit /\ [][SubstNext]_vars

\* the text with every placeholder occurrence replaced by its value, the
\* values put in as they are and everything else copied
RECURSIVE Filled(_, _, _)
Filled(text, config, i) ==
    IF i > Len(text) THEN <<>>
    ELSE IF OccursAt(text, SchoolVar, i)
    THEN config.school_name \o Filled(text, config, i + Len(SchoolVar))
    ELSE IF OccursAt(text, EventVar, i)
    THEN config.event_name \o Filled(text, config, i + Len(EventVar))
    ELSE IF OccursAt(text, DateVar, i)
    THEN config.event_date \o Filled(text, config, i + Len(DateVar))
    ELSE <<text[i]>> \o Filled(text, config, i + 1)

\* C15: substitution replaces every occurrence of {school_name},
\* {event_name} and {event_date} in the text by the context value, put in
\* as given, and leaves every other character, unknown placeholders
\* included, as it was
SubstitutionIsLiteral ==
    substOut.done => substOut.text = Filled(substIn.text, substIn, 1)


(***************************************************************************)
(* ImageProcessor.resize_image and create_thumbnail                        *)
(* (src/src/image_processor.py): the fit that pads instead of cropping.    *)
(***************************************************************************)
Black == <<"black", "", 0, 0>>

\* np.zeros((h, w, 3)): raises on a negative dimension
zeros(w, h) ==
    IF w < 0 \/ h < 0 THEN Raise
    ELSE Ok([w |-> w, h |-> h, buf |-> "np.zeros", order |-> "bgr",
             px |-> [p \in Coords(w, h) |-> Black]])

\* scale = min(target_w / w, target_h / h) as <<numerator, denominator>>
BoxScale(w, h, target_w, target_h) ==
    IF target_w * h <= target_h * w THEN <<target_w, w>> ELSE <<target_h, h>>

\* canvas[y_offset:y_offset+new_h, x_offset:x_offset+new_w] = resized
Centred(canvas, resized, target_w, target_h) ==
    IF ~canvas.ok \/ ~resized.ok THEN Raise
    ELSE SliceAssign(canvas.val, resized.val,
                     (target_w - resized.val.w) \div 2,
                     (target_h - resized.val.h) \div 2)

\* the scaled size taken just below the product
Letterbox_below(image, target_w, target_h, scale) ==
    LET resized == resize(image, (image.w * scale[1] - 1) \div scale[2],
                          (image.h * scale[1] - 1) \div scale[2])
    IN  IF ~resized.ok THEN Raise
        ELSE Centred(zeros(target_w, target_h), resized, target_w, target_h)

\* the body of the try with maintain_aspect set
Letterbox(image, target_w, target_h, scale) ==
    LET new_w == FloatMulFloor(image.w, scale[1], scale[2])
        new_h == FloatMulFloor(image.h, scale[1], scale[2])
        resized == resize(image, new_w, new_h)
    IN  IF ~resized.ok THEN Raise
        ELSE Centred(zeros(target_w, target_h), resized, target_w, target_h)

\* the except branch: the image is returned as it came in
OrImage(r, image) == IF r.ok THEN r.val ELSE image

\* resize_image(image, target_size, maintain_aspect); h or w of 0 raises
\* ZeroDivisionError
resize_image(image, target_w, target_h, maintain_aspect) ==
    IF ~maintain_aspect THEN OrImage(resize(image, target_w, target_h), image)
    ELSE IF image.w = 0 \/ image.h = 0 THEN image
    ELSE OrImage(Letterbox(image, target_w, target_h,
                           BoxScale(image.w, image.h, target_w, target_h)),
                 image)

\* create_thumbnail(image, max_size)
create_thumbnail(image, max_w, max_h) == resize_image(image, max_w, max_h, TRUE)

\* the engine is not used while the image processor is exercised
EngineIdle ==
    /\ templates = EmptyMap
    /\ call = Idle
    /\ ret = None
    /\ drawLog = <<>>
    /\ frontBuf = NoImage
    /\ sideBuf = NoImage
    /\ fitIn = [w0 |-> 1, h0 |-> 1, wt |-> 1, ht |-> 1]
    /\ fitOut = NotRun
    /\ legacyOut = NotRun
    /\ StoreIdle
    /\ SubstIdle

\* non-empty source sizes and positive target sizes
BoxInputs ==
    [w0 : 1..MaxSrcW, h0 : 1..MaxSrcH, wt : 1..MaxTgtW, ht : 1..MaxTgtH]

BoxInit ==
    /\ boxIn \in BoxInputs
    /\ boxOut = [done |-> FALSE, op |-> "none", val |-> NoImage]
    /\ EngineIdle
    /\ CfgIdle
    /\ BoothIdle
    /\ PreviewIdle

BoxPhoto == Photo("front", boxIn.w0, boxIn.h0)

BoxDone(op, image) ==
    /\ ~boxOut.done
    /\ boxOut' = [done |-> TRUE, op |-> op, val |-> image]
    /\ UNCHANGED <<boxIn, engineVars, cfgVars, boothVars, previewVars>>

ResizeImage == BoxDone("resize_image", resize_image(BoxPhoto, boxIn.wt, boxIn.ht, TRUE))

ResizeDirect == BoxDone("resize_direct", resize_image(BoxPhoto, boxIn.wt, boxIn.ht, FALSE))

CreateThumbnail == BoxDone("create_thumbnail", create_thumbnail(BoxPhoto, boxIn.wt, boxIn.ht))

BoxNext == ResizeImage \/ ResizeDirect \/ CreateThumbnail

SpecBox == BoxInit /\ [][BoxNext]_vars

\* the run was one with maintain_aspect set
Letterboxed == boxOut.done /\ boxOut.op \in {"resize_image", "create_thumbnail"}

\* the size of the source scaled by min(tw / w, th / h), rounded down
ScaledSize ==
    LET scale == BoxScale(boxIn.w0, boxIn.h0, boxIn.wt, boxIn.ht)
    IN  <<(boxIn.w0 * scale[1]) \div scale[2], (boxIn.h0 * scale[1]) \div scale[2]>>

\* C21: resize_image with maintain_aspect, and create_thumbnail, return
\* for a non-empty source and a positive target size a buffer of exactly
\* the target size, in which the source scaled by min(tw / w, th / h) is
\* centred and every pixel outside it is black
LetterboxFits ==
    Letterboxed
    => LET size == ScaledSize
           x_offset == (boxIn.wt - size[1]) \div 2
           y_offset == (boxIn.ht - size[2]) \div 2
           out == boxOut.val
       IN  /\ out.w = boxIn.wt /\ out.h = boxIn.ht
           /\ \A p \in DOMAIN out.px :
                 IF /\ y_offset <= p[1] /\ p[1] < y_offset + size[2]
                    /\ x_offset <= p[2] /\ p[2] < x_offset + size[1]
                 THEN out.px[p][1] = "photo"
                 ELSE out.px[p] = Black

\* C22: on an image that already has the target size resize_image with
\* maintain_aspect scales by 1, pads nothing and returns the content of
\* the input
LetterboxSameSize ==
    (Letterboxed /\ boxIn.wt = boxIn.w0 /\ boxIn.ht = boxIn.h0)
    => /\ boxOut.val.w = boxIn.w0 /\ boxOut.val.h = boxIn.h0
       /\ boxOut.val.px = BoxPhoto.px
       /\ FloatMulFloor(boxIn.w0, boxIn.wt, boxIn.w0) = boxIn.w0
       /\ FloatMulFloor(boxIn.h0, boxIn.ht, boxIn.h0) = boxIn.h0

WitnessSameSize ==
    /\ boxOut.done /\ boxOut.op = "resize_image"
    /\ boxIn.wt = boxIn.w0 /\ boxIn.ht = boxIn.h0
    /\ boxIn.w0 > 1 /\ boxIn.h0 > 1
    /\ boxOut.val.buf = "np.zeros"


(***************************************************************************)
(* ConfigManager (src/src/config_manager.py).  A configuration is a        *)
(* function from the keys it has to their values.  A JSON file is absent,  *)
(* unreadable (open or json.load raises), a JSON value that is no object,  *)
(* or an object with the keys and values of `doc`.                         *)
(***************************************************************************)
\* keys of _get_default_config, and a key that is no default
DefaultKeys == {"camera_index", "output_directory", "school_name"}

ConfigKeys == DefaultKeys \cup {"custom"}

\* "null" is JSON null, the value None
SettingValues == {"default", "other", "null"}

default_config == [k \in DefaultKeys |-> "default"]

\* {**a, **b}
Merge(a, b) ==
    [k \in DOMAIN a \cup DOMAIN b |-> IF k \in DOMAIN b THEN b[k] ELSE a[k]]

\* save_config: a failure to write is logged and nothing else
save_config(data, file) ==
    IF file.writable THEN [file EXCEPT !.state = "object", !.doc = data] ELSE file

\* the loaded object taken as the whole configuration
load_config_unmerged(file) ==
    IF file.state = "absent"
    THEN [data |-> default_config, file |-> save_config(default_config, file)]
    ELSE IF file.state = "object"
    THEN [data |-> file.doc, file |-> file]
    ELSE [data |-> default_config, file |-> file]

\* load_config
load_config(file) ==
    IF file.state = "absent"
    THEN [data |-> default_config, file |-> save_config(default_config, file)]
    ELSE IF file.state = "object"
    THEN [data |-> Merge(default_config, file.doc), file |-> file]
    ELSE [data |-> default_config, file |-> file]

\* import_config on the file at import_path
import_config(data, file) ==
    IF file.state = "object"
    THEN [ret |-> TRUE, data |-> Merge(default_config, file.doc)]
    ELSE [ret |-> FALSE, data |-> data]

Objects == UNION {[K -> SettingValues] : K \in SUBSET ConfigKeys}

\* objects written by hand: one key each at most
SmallObjects == {o \in Objects : Cardinality(DOMAIN o) <= 1}

JsonFiles ==
    {[state |-> st, doc |-> EmptyMap, writable |-> w] :
        st \in {"absent", "unreadable", "no_object"}, w \in BOOLEAN}
    \cup {[state |-> "object", doc |-> o, writable |-> w] :
             o \in SmallObjects, w \in BOOLEAN}

CfgInit ==
    /\ config_data = EmptyMap
    /\ config_file \in JsonFiles
    /\ cfgOp = NoCfgOp
    /\ EngineIdle
    /\ BoxIdle
    /\ BoothIdle
    /\ PreviewIdle

CfgDone(op, r, data, file) ==
    /\ cfgOp' = [op |-> op, ret |-> r]
    /\ config_data' = data
    /\ config_file' = file
    /\ UNCHANGED <<engineVars, boxVars, boothVars, previewVars>>

\* ConfigManager(config_file): config_data = {}, then load_config
CfgConstruct ==
    /\ cfgOp.op = "none"
    /\ LET r == load_config(config_file)
       IN  CfgDone("__init__", TRUE, r.data, r.file)

LoadConfig ==
    /\ cfgOp.op # "none"
    /\ LET r == load_config(config_file)
       IN  CfgDone("load_config", TRUE, r.data, r.file)

SaveConfig ==
    /\ cfgOp.op # "none"
    /\ CfgDone("save_config", TRUE, config_data, save_config(config_data, config_file))

\* set(key, value): config_data[key] = value
CfgSet ==
    /\ cfgOp.op # "none"
    /\ \E k \in ConfigKeys, v \in SettingValues :
          CfgDone("set", TRUE, Merge(config_data, [x \in {k} |-> v]), config_file)

\* update(config_dict): config_data.update(config_dict)
CfgUpdate ==
    /\ cfgOp.op # "none"
    /\ \E o \in SmallObjects :
          CfgDone("update", TRUE, Merge(config_data, o), config_file)

ImportConfig ==
    /\ cfgOp.op # "none"
    /\ \E f \in JsonFiles :
          LET r == import_config(config_data, f)
          IN  CfgDone("import_config", r.ret, r.data, config_file)

\* reset_to_defaults
ResetToDefaults ==
    /\ cfgOp.op # "none"
    /\ CfgDone("reset_to_defaults", TRUE, default_config, config_file)

CfgNext ==
    \/ CfgConstruct \/ LoadConfig \/ SaveConfig \/ CfgSet \/ CfgUpdate
    \/ ImportConfig \/ ResetToDefaults

SpecConfig == CfgInit /\ [][CfgNext]_vars

\* C23: once the ConfigManager is constructed, and after every load_config,
\* set, update, import_config (whether it returned True or False) and
\* reset_to_defaults, every key of the default configuration is a key of
\* the configuration, whatever the settings file was
DefaultKeysPresent ==
    cfgOp.op # "none" => DefaultKeys \subseteq DOMAIN config_data

WitnessPartialSettings ==
    /\ cfgOp.op \in {"__init__", "load_config"}
    /\ config_file.state = "object"
    /\ DefaultKeys \ DOMAIN config_file.doc # {}
    /\ \E k \in DOMAIN config_file.doc : config_data[k] # "default"


(***************************************************************************)
(* The booth application (src/src/main.py): the capture handlers, which    *)
(* run one at a time on the GUI thread.  An image is the number of the     *)
(* camera shot it came from, 0 for None.  button_text is "mugshot" for the *)
(* initial label of the capture button and "side_view" for the label of    *)
(* the second click.                                                       *)
(***************************************************************************)
\* what a handler has done so far
Run(a) == [app |-> a, composed |-> <<>>, saved |-> <<>>, raised |-> FALSE]

Raised(r) == [r EXCEPT !.raised = TRUE]

\* self.capture_button.config(state=tk.DISABLED)
Disabled(r) == [r EXCEPT !.app.button_state = "disabled"]

\* the first image left in place
reset_dual_capture_state_keepImage(r) ==
    [r EXCEPT !.app.dual_capture_state = "ready",
              !.app.button_text = "mugshot", !.app.button_state = "normal"]

\* reset_dual_capture_state
reset_dual_capture_state(r) ==
    [r EXCEPT !.app.dual_capture_state = "ready", !.app.first_image = 0,
              !.app.button_text = "mugshot", !.app.button_state = "normal"]

\* save_and_display_photo: save_image is called, its result is not looked
\* at, and the popup catches its own errors
save_and_display_photo(r, processed_image) ==
    [r EXCEPT !.saved = Append(@, processed_image), !.app.capture_count = @ + 1]

\* whether the entry point returns a canvas for the template name
Composes(op, name, store) ==
    LET front == Photo("front", MaxPhoto, MaxPhoto)
        side == Photo("side", MaxPhoto, MaxPhoto)
        r == IF op = "process_image"
             THEN process_image(front, name, store, BackgroundFile)
             ELSE process_dual_images(front, side, name, store, BackgroundFile)
    IN  r.ret.status = "canvas"

Composition(op, name, front, side) ==
    [op |-> op, name |-> name, front |-> front, side |-> side]

\* the call of the entry point and what follows it in both capture paths
ComposeAndSave(r, made, composes) ==
    LET called == [r EXCEPT !.composed = Append(@, made)]
    IN  IF ~composes THEN Raised(called)
        ELSE save_and_display_photo(called, made)

\* capture_first_shot; shot is what capture_image returns
capture_first_shot(r, shot) ==
    LET taken == [Disabled(r) EXCEPT !.app.first_image = shot]
    IN  IF shot = 0 THEN Raised(taken)
        ELSE [taken EXCEPT !.app.dual_capture_state = "waiting_for_second",
                           !.app.button_text = "side_view",
                           !.app.button_state = "normal"]

\* the two images handed over in the other order
capture_second_shot_swapped(r, shot, store) ==
    IF r.app.first_image = 0 THEN Raised(r)
    ELSE IF shot = 0 THEN Raised(Disabled(r))
    ELSE LET name == r.app.template_var
             done == ComposeAndSave(Disabled(r),
                                    Composition("process_dual_images", name,
                                                shot, r.app.first_image),
                                    Composes("process_dual_images", name, store))
         IN  IF done.raised THEN done ELSE reset_dual_capture_state(done)

\* capture_second_shot
capture_second_shot(r, shot, store) ==
    IF r.app.first_image = 0 THEN Raised(r)
    ELSE IF shot = 0 THEN Raised(Disabled(r))
    ELSE LET name == r.app.template_var
             done == ComposeAndSave(Disabled(r),
                                    Composition("process_dual_images", name,
                                                r.app.first_image, shot),
                                    Composes("process_dual_images", name, store))
         IN  IF done.raised THEN done ELSE reset_dual_capture_state(done)

\* handle_dual_capture
handle_dual_capture(r, shot, store) ==
    IF r.app.dual_capture_state = "ready" THEN capture_first_shot(r, shot)
    ELSE IF r.app.dual_capture_state = "waiting_for_second"
    THEN capture_second_shot(r, shot, store)
    ELSE r

\* capture_single_photo
capture_single_photo(r, shot, store) ==
    IF shot = 0 THEN Raised(Disabled(r))
    ELSE ComposeAndSave(Disabled(r),
                        Composition("process_image", r.app.template_var, shot, 0),
                        Composes("process_image", r.app.template_var, store))

\* `template and template.get("dual_photo", False)`
SelectedIsDual(a, store) ==
    a.template_var \in DOMAIN store /\ DualFlag(store[a.template_var])

\* the except branch of capture_photo without the reset
OnCaptureError_noReset(r) == r

\* the except branch of capture_photo
OnCaptureError(r) == IF r.raised THEN reset_dual_capture_state(r) ELSE r

\* the finally branch of capture_photo
Finally(r) ==
    IF r.app.dual_capture_state = "ready"
    THEN [r EXCEPT !.app.button_state = "normal"]
    ELSE r

\* capture_photo once the camera is known to be connected
capture_photo(a, shot, store) ==
    Finally(OnCaptureError(IF SelectedIsDual(a, store)
                           THEN handle_dual_capture(Run(a), shot, store)
                           ELSE capture_single_photo(Run(a), shot, store)))

\* the templates of the booth: a dual one, a single one, and one that has
\* the dual_photo flag and no list of slots
BoothStore ==
    [n \in {"mugshot", "classic", "flagged"} |->
        IF n = "mugshot" THEN GoodDual
        ELSE IF n = "classic" THEN GoodLegacy
        ELSE [GoodLegacy EXCEPT !.dual_photo = TRUE, !.keys = @ \cup {"dual_photo"}]]

\* the names default_template can hold: "dual_photo" is its default and
\* no template of the store
DefaultChoices == DOMAIN BoothStore \cup {"dual_photo"}

\* after __init__: the camera found or not, the default template selected
BoothInit ==
    /\ templates = BoothStore
    /\ app \in {[NoApp EXCEPT !.connected = c, !.template_var = n] :
                    c \in BOOLEAN, n \in DefaultChoices}
    /\ click = NoClick
    /\ call = Idle
    /\ ret = None
    /\ drawLog = <<>>
    /\ frontBuf = NoImage
    /\ sideBuf = NoImage
    /\ fitIn = [w0 |-> 1, h0 |-> 1, wt |-> 1, ht |-> 1]
    /\ fitOut = NotRun
    /\ legacyOut = NotRun
    /\ StoreIdle
    /\ SubstIdle
    /\ BoxIdle
    /\ CfgIdle
    /\ PreviewIdle

Handled(op, outcome, shot, r) ==
    /\ click' = [op |-> op, outcome |-> outcome, before |-> app, shot |-> shot,
                 composed |-> r.composed, saved |-> r.saved]
    /\ app' = r.app
    /\ UNCHANGED <<engineVars, boxVars, cfgVars, previewVars>>

\* a click on the capture button with no camera: the message box, nothing else
CaptureRejected ==
    /\ app.button_state = "normal"
    /\ ~app.connected
    /\ Handled("capture_photo", "rejected", click.shot, Run(app))

\* a click on the capture button; a disabled button takes no click, and
\* capture_image returns a new image or None
CapturePhoto ==
    /\ app.button_state = "normal"
    /\ app.connected
    /\ click.shot < MaxShots
    /\ \E got \in BOOLEAN :
          LET shot == IF got THEN click.shot + 1 ELSE 0
              r == capture_photo(app, shot, templates)
          IN  Handled("capture_photo", IF r.raised THEN "failed" ELSE "ok",
                      IF got THEN shot ELSE click.shot, r)

\* the user picks a template in the combobox
SelectTemplate ==
    \E n \in DOMAIN templates :
        /\ n # app.template_var
        /\ Handled("select_template", "ok", click.shot,
                   Run([app EXCEPT !.template_var = n]))

\* update_template_dropdown: the default template if the store has it,
\* the first name of the store otherwise
update_template_dropdown(a, store, default_template, first) ==
    IF DOMAIN store = {} THEN a
    ELSE [a EXCEPT !.template_var = IF default_template \in DOMAIN store
                                    THEN default_template ELSE first]

\* update_from_settings: a new TemplateProcessor on the same directory,
\* the dropdown, and a new CameraManager that is not initialized
UpdateFromSettings ==
    \E d \in DefaultChoices, first \in DOMAIN templates :
        Handled("update_from_settings", "ok", click.shot,
                Run([update_template_dropdown(app, templates, d, first)
                        EXCEPT !.connected = FALSE]))

BoothNext == CaptureRejected \/ CapturePhoto \/ SelectTemplate \/ UpdateFromSettings

SpecBooth == BoothInit /\ [][BoothNext]_vars

\* the template selected when the last handler began was a dual one
WasDual == SelectedIsDual(click.before, templates)

Captured(outcome) == click.op = "capture_photo" /\ click.outcome = outcome

\* C24: with a dual template selected, a successful click in state "ready"
\* stores the captured image as the first image and moves to
\* "waiting_for_second" without composing or saving; a successful click in
\* state "waiting_for_second" composes once, with the stored first image
\* and the new image in that order, saves the result and returns to
\* "ready" with no first image
DualCaptureProtocol ==
    (Captured("ok") /\ WasDual)
    => LET before == click.before
       IN  /\ before.dual_capture_state = "ready"
              => /\ click.shot # 0 /\ app.first_image = click.shot
                 /\ app.dual_capture_state = "waiting_for_second"
                 /\ click.composed = <<>> /\ click.saved = <<>>
                 /\ app.capture_count = before.capture_count
           /\ before.dual_capture_state = "waiting_for_second"
              => /\ before.first_image # 0 /\ before.first_image < click.shot
                 /\ click.composed =
                      <<Composition("process_dual_images", before.template_var,
                                    before.first_image, click.shot)>>
                 /\ click.saved = click.composed
                 /\ app.capture_count = before.capture_count + 1
                 /\ app.dual_capture_state = "ready"
                 /\ app.first_image = 0

WitnessSecondShot ==
    /\ Captured("ok") /\ WasDual
    /\ click.before.dual_capture_state = "waiting_for_second"
    /\ Len(click.saved) = 1

\* C25: a capture_photo call that fails, because capture_image returned
\* None or the entry point returned None, leaves the state "ready", no
\* first image, the capture button enabled with its initial label and
\* capture_count as it was
CaptureFailureResets ==
    Captured("failed")
    => /\ app.dual_capture_state = "ready"
       /\ app.first_image = 0
       /\ app.button_state = "normal" /\ app.button_text = "mugshot"
       /\ app.capture_count = click.before.capture_count

WitnessSecondShotFailed ==
    /\ Captured("failed")
    /\ click.before.dual_capture_state = "waiting_for_second"
    /\ click.composed # <<>>

\* C26: the capture button is enabled after every capture_photo call, and
\* so between any two handlers, whatever the state and the selected
\* template were
ButtonReenabled == app.button_state = "normal"

CameraStaysConnected ==
    (click.op = "update_from_settings" /\ click.before.connected) => app.connected


(***************************************************************************)
(* Preview and capture threads (src/src/main.py, camera_manager.py).  The  *)
(* GUI thread runs the handlers; every start_preview starts one more       *)
(* thread on preview_loop.  cv2.VideoCapture.read releases the interpreter *)
(* lock while it waits for the device, so a read is a step that begins and *)
(* a step that ends.                                                       *)
(***************************************************************************)
Threads == 1..MaxThreads

At(at, n) == [at |-> at, n |-> n]

\* threads whose preview_loop has begun and has not returned
Looping == {t \in Threads : preview[t].at \notin {"none", "done"}}

\* threads inside camera.read()
Reading ==
    {t \in Threads : preview[t].at = "read"} \cup (IF gui.at = "read" THEN {0} ELSE {})

PreviewInit ==
    /\ preview_running = FALSE
    /\ preview = [t \in Threads |-> At("none", 0)]
    /\ gui = At("idle", 0)
    /\ EngineIdle
    /\ BoxIdle
    /\ CfgIdle
    /\ BoothIdle

\* start_preview with the camera connected: the flag, then a new thread
StartPreview ==
    /\ gui.at = "idle"
    /\ ~preview_running
    /\ \E t \in Threads :
          /\ preview[t].at = "none"
          /\ \A u \in Threads : u < t => preview[u].at # "none"
          /\ preview' = [preview EXCEPT ![t] = At("while", 0)]
    /\ preview_running' = TRUE
    /\ UNCHANGED <<gui, engineVars, boxVars, cfgVars, boothVars>>

\* stop_preview: the flag is cleared; the thread is not joined
StopPreview ==
    /\ gui.at = "idle"
    /\ preview_running
    /\ preview_running' = FALSE
    /\ UNCHANGED <<preview, gui, engineVars, boxVars, cfgVars, boothVars>>

\* `while self.preview_running:`
LoopTest(t) ==
    /\ preview[t].at = "while"
    /\ preview' = [preview EXCEPT ![t] = IF preview_running THEN At("get_frame", 1)
                                         ELSE At("done", 0)]
    /\ UNCHANGED <<preview_running, gui, engineVars, boxVars, cfgVars, boothVars>>

\* get_frame: the thread enters camera.read(), for the first or the second time
FrameReadBegins(t) ==
    /\ preview[t].at = "get_frame"
    /\ preview' = [preview EXCEPT ![t] = At("read", @.n)]
    /\ UNCHANGED <<preview_running, gui, engineVars, boxVars, cfgVars, boothVars>>

\* camera.read() returns: a second read after a good first one, otherwise
\* the frame is shown (or None is returned) and the thread sleeps
FrameReadEnds(t) ==
    /\ preview[t].at = "read"
    /\ \E ok \in BOOLEAN :
          preview' = [preview EXCEPT ![t] = IF ok /\ @.n < FrameReads
                                            THEN At("get_frame", @.n + 1)
                                            ELSE At("sleep", 0)]
    /\ UNCHANGED <<preview_running, gui, engineVars, boxVars, cfgVars, boothVars>>

\* time.sleep(1/20) is over
Wakes(t) ==
    /\ preview[t].at = "sleep"
    /\ preview' = [preview EXCEPT ![t] = At("while", 0)]
    /\ UNCHANGED <<preview_running, gui, engineVars, boxVars, cfgVars, boothVars>>

\* a capture click: capture_image enters its first camera.read()
CaptureReadBegins ==
    /\ gui.at \in {"idle", "pause"}
    /\ gui' = At("read", IF gui.at = "idle" THEN 1 ELSE gui.n + 1)
    /\ UNCHANGED <<preview_running, preview, engineVars, boxVars, cfgVars, boothVars>>

\* camera.read() returns on the GUI thread: three warm-up reads, then the
\* read of the image, then the rest of the handler
CaptureReadEnds ==
    /\ gui.at = "read"
    /\ gui' = IF gui.n < CaptureReads THEN At("pause", gui.n) ELSE At("idle", 0)
    /\ UNCHANGED <<preview_running, preview, engineVars, boxVars, cfgVars, boothVars>>

PreviewNext ==
    \/ StartPreview \/ StopPreview
    \/ CaptureReadBegins \/ CaptureReadEnds
    \/ \E t \in Threads : LoopTest(t) \/ FrameReadBegins(t) \/ FrameReadEnds(t) \/ Wakes(t)

SpecPreview == PreviewInit /\ [][PreviewNext]_vars

\* C29: at most one preview_loop thread is running at a time: when a
\* thread started by a later start_preview is reading or has read a frame,
\* every thread started before has left its loop
OnePreviewThread ==
    /\ Cardinality(Looping) <= 1
    /\ \A t \in Threads, u \in Threads :
          (t < u /\ preview[u].at \in {"read", "sleep"}) => preview[t].at = "done"

\* C30: the camera is never read by two threads at once
OneCameraReader == Cardinality(Reading) <= 1

====
